---- MODULE Spec2Model ----
(***************************************************************************)
(* State-machine model of the shopping-list persistence layer:             *)
(*   - the SQLite store, its schema and the migration engine               *)
(*     (database.service.ts),                                              *)
(*   - the list and item services (shopping-lists.service.ts,              *)
(*     shopping-items.service.ts),                                         *)
(*   - the cache hooks with their fetches (use-shopping-items.ts,          *)
(*     use-settings.ts), the list screen and the theme provider            *)
(*     (theme-context.tsx).                                                *)
(*                                                                         *)
(* Granularity.  JavaScript is single threaded: an async function runs     *)
(* without interruption from one await to the next.  One action of the     *)
(* model is therefore "the awaited storage call executes and the           *)
(* continuation runs up to the next await".  A multi-statement execAsync   *)
(* is one native call: its statements run in order, each one committed on  *)
(* its own (autocommit), and the call stops at the first statement that    *)
(* fails.  Within one specification the clock stands still; a              *)
(* specification explores the runs of at most MaxIssued service calls, at  *)
(* most MaxOps of them in flight at a time.                                *)
(***************************************************************************)
EXTENDS Integers, Sequences, FiniteSets, TLC

VARIABLES
    db,          \* the database file: schema objects and the rows of each table
    now,         \* the wall clock read by Date.now()
    dbInstance,  \* the module-level singleton handle, 0 for null
    opens,       \* openDatabaseAsync calls that completed in this process
    fkOn,        \* the handles on which PRAGMA foreign_keys = ON has run
    migStarts,   \* runMigrations invocations in this process
    ini,         \* the initializeDatabase() calls of this process
    ops,         \* the service calls in flight or just settled
    items,       \* the items state of useShoppingItems(listId)
    lists,       \* the lists state of useShoppingLists()
    hk,          \* the hook calls suspended on a service call
    isLoading,   \* the isLoading state of each hook
    error,       \* the error state of each hook, "null" or the error's class
    currentListId, \* the listId given to useShoppingItems at the last render
    theme,       \* the themeId and customColors state of the ThemeProvider
    issued       \* the service calls made so far

procVars == <<dbInstance, opens, fkOn, migStarts, ini>>

hookVars == <<items, lists, hk, isLoading, error, currentListId, theme>>

vars ==
    <<db, now, dbInstance, opens, fkOn, migStarts, ini, ops, items, lists, hk,
      isLoading, error, currentListId, theme, issued>>

----------------------------------------------------------------------------
\* Bounds of the model

MaxTime == 1

MaxCalls == 2

MaxOps == 2

MaxIssued == 3

\* Program constants

CURRENT_SCHEMA_VERSION == 3

----------------------------------------------------------------------------
\* Small helpers

Max(S) == CHOOSE x \in S : \A y \in S : y <= x

Range(s) == {s[i] : i \in 1..Len(s)}

----------------------------------------------------------------------------
\* The store

\* A database file that was never opened: no table, no row. transaction is
\* the state of the connection: empty in autocommit mode, else holding the
\* store as it was when the open transaction began.
EmptyDb ==
    [schema |-> {}, schema_version |-> {}, shopping_lists |-> {},
     shopping_items |-> {}, app_settings |-> {}, transaction |-> {}]

\* SELECT version FROM schema_version ORDER BY version DESC LIMIT 1
SelectVersion(d) ==
    IF d.schema_version = {} THEN 0
    ELSE Max({r.version : r \in d.schema_version})

\* One SQL statement executed against the store d. Yields [ok, db]: a statement
\* that fails leaves the store as it was.
ApplyStmt(d, s) ==
    CASE s.op = "createTable" ->
            \* CREATE TABLE IF NOT EXISTS
            [ok |-> TRUE, db |-> [d EXCEPT !.schema = @ \cup {s.name}]]
      [] s.op = "createIndex" ->
            \* CREATE INDEX IF NOT EXISTS name ON table(...)
            IF s.table \in d.schema
            THEN [ok |-> TRUE, db |-> [d EXCEPT !.schema = @ \cup {s.name}]]
            ELSE [ok |-> FALSE, db |-> d]
      [] s.op = "addCompleted" ->
            \* ALTER TABLE shopping_items ADD COLUMN completed INTEGER NOT NULL DEFAULT 0
            IF "shopping_items" \in d.schema /\ "completed" \notin d.schema
            THEN [ok |-> TRUE,
                  db |-> [d EXCEPT !.schema = @ \cup {"completed"},
                                   !.shopping_items =
                                      {[id |-> r.id, list_id |-> r.list_id,
                                        text |-> r.text, completed |-> 0,
                                        created_at |-> r.created_at,
                                        updated_at |-> r.updated_at] : r \in @}]]
            ELSE [ok |-> FALSE, db |-> d]
      [] s.op = "insertVersion" ->
            \* INSERT INTO schema_version (version, applied_at): version is the key
            IF "schema_version" \in d.schema
               /\ \A r \in d.schema_version : r.version # s.version
            THEN [ok |-> TRUE,
                  db |-> [d EXCEPT !.schema_version =
                             @ \cup {[version |-> s.version, applied_at |-> s.at]}]]
            ELSE [ok |-> FALSE, db |-> d]
      [] s.op = "insertSettings" ->
            \* INSERT INTO app_settings (id, ...) VALUES (1, 'default', NULL, ...)
            IF "app_settings" \in d.schema
               /\ \A r \in d.app_settings : r.id # 1
            THEN [ok |-> TRUE,
                  db |-> [d EXCEPT !.app_settings =
                             @ \cup {[id |-> 1, theme_id |-> "default",
                                      custom_colors |-> "NULL",
                                      created_at |-> s.at, updated_at |-> s.at]}]]
            ELSE [ok |-> FALSE, db |-> d]

\* execAsync(script): the statements run in order and the call stops at the
\* first one that fails; what ran before it stays. failAt > 0 is a storage
\* fault (I/O error, disk full) met by statement failAt. Yields
\* [ok, db, fault], fault telling a storage fault from an SQL error.
RECURSIVE ExecFrom(_, _, _, _)
ExecFrom(d, script, i, failAt) ==
    IF i > Len(script) THEN [ok |-> TRUE, db |-> d, fault |-> FALSE]
    ELSE IF i = failAt THEN [ok |-> FALSE, db |-> d, fault |-> TRUE]
    ELSE LET r == ApplyStmt(d, script[i])
         IN  IF r.ok THEN ExecFrom(r.db, script, i + 1, failAt)
             ELSE [ok |-> FALSE, db |-> d, fault |-> FALSE]

execAsync(d, script, failAt) == ExecFrom(d, script, 1, failAt)

----------------------------------------------------------------------------
\* The migration steps

runMigrationV1(at) ==
    << [op |-> "createTable", name |-> "shopping_lists"],
       [op |-> "createTable", name |-> "shopping_items"],
       [op |-> "createIndex", name |-> "idx_lists_created", table |-> "shopping_lists"],
       [op |-> "createIndex", name |-> "idx_items_list", table |-> "shopping_items"],
       [op |-> "insertVersion", version |-> 1, at |-> at] >>

runMigrationV2(at) ==
    << [op |-> "addCompleted"],
       [op |-> "insertVersion", version |-> 2, at |-> at] >>

\* A step 3 that creates the settings table without its row.
runMigrationV3NoRow(at) ==
    << [op |-> "createTable", name |-> "app_settings"],
       [op |-> "insertVersion", version |-> 3, at |-> at] >>

runMigrationV3(at) ==
    << [op |-> "createTable", name |-> "app_settings"],
       [op |-> "insertSettings", at |-> at],
       [op |-> "insertVersion", version |-> 3, at |-> at] >>

MigrationScript(step, at) ==
    CASE step = 1 -> runMigrationV1(at)
      [] step = 2 -> runMigrationV2(at)
      [] step = 3 -> runMigrationV3(at)

\* The steps runMigrations runs for the version it read, in the order of its
\* three if-statements.
PendingStepsSkipV2(currentVersion) ==
    (IF currentVersion < 1 THEN <<1>> ELSE <<>>)
    \o (IF currentVersion < 1 THEN <<2>> ELSE <<>>)
    \o (IF currentVersion < 3 THEN <<3>> ELSE <<>>)

PendingStepsRerunLast(currentVersion) ==
    (IF currentVersion < 1 THEN <<1>> ELSE <<>>)
    \o (IF currentVersion < 2 THEN <<2>> ELSE <<>>)
    \o (IF currentVersion <= 3 THEN <<3>> ELSE <<>>)

PendingSteps(currentVersion) ==
    (IF currentVersion < 1 THEN <<1>> ELSE <<>>)
    \o (IF currentVersion < 2 THEN <<2>> ELSE <<>>)
    \o (IF currentVersion < 3 THEN <<3>> ELSE <<>>)

----------------------------------------------------------------------------
\* Stores a released version of the program leaves behind

Ids == {"i1", "i2"}

ListIds == {"l1", "l2"}

SampleListRow == [id |-> "l1", name |-> <<"a">>, created_at |-> 0, updated_at |-> 0]

\* An item row written before the completed column existed (schema version 1).
SampleItemRowV1 ==
    [id |-> "i1", list_id |-> "l1", text |-> <<"a">>, created_at |-> 0, updated_at |-> 0]

SampleItemRow ==
    [id |-> "i1", list_id |-> "l1", text |-> <<"a">>, completed |-> 1,
     created_at |-> 0, updated_at |-> 0]

SampleListRow2 == [id |-> "l2", name |-> <<"b">>, created_at |-> 0, updated_at |-> 0]

SampleItemRow2 ==
    [id |-> "i2", list_id |-> "l2", text |-> <<"b">>, completed |-> 0,
     created_at |-> 0, updated_at |-> 0]

\* The schema and the rows the steps 1..v create, applied at time 0.
RECURSIVE MigratedTo(_)
MigratedTo(v) ==
    IF v = 0 THEN EmptyDb
    ELSE execAsync(IF v = 1
                   THEN [EmptyDb EXCEPT !.schema = {"schema_version"}]
                   ELSE MigratedTo(v - 1),
                   MigrationScript(v, 0), 0).db

\* The store at persisted version v, empty or holding one list and one item.
PersistedStores ==
    {MigratedTo(v) : v \in 0..CURRENT_SCHEMA_VERSION}
    \cup {[MigratedTo(1) EXCEPT !.shopping_lists = {SampleListRow},
                                !.shopping_items = {SampleItemRowV1}]}
    \cup {[MigratedTo(v) EXCEPT !.shopping_lists = {SampleListRow},
                                !.shopping_items = {SampleItemRow}] : v \in 2..3}

----------------------------------------------------------------------------
\* The frames of service calls

Slots == 1..MaxOps

\* No hook call is suspended in the frame.
IdleHook == [kind |-> "none", id |-> "", previous |-> <<>>]

\* The two cache hooks, each with its own isLoading and error state.
Hooks == {"useShoppingItems", "useShoppingLists"}

\* The list whose screen is open: the listId given to useShoppingItems.
HookListId == "l1"

\* useState('default'), useState(null) of the ThemeProvider.
DefaultTheme == [themeId |-> "default", customColors |-> {}]

\* The hooks and the provider as useState leaves them at the first render:
\* isLoading true, error null.
Unmounted ==
    /\ isLoading = [h \in Hooks |-> TRUE]
    /\ error = [h \in Hooks |-> "null"]
    /\ currentListId = HookListId
    /\ theme = DefaultTheme

\* The frame of a service call: the operation, where it is suspended (pc:
\* "check" awaiting its read, "write" awaiting its write, "done" settled), its
\* arguments (id, text), its locals, and how it settled (outcome, and the field
\* and value of the error).
IdleOp ==
    [op |-> "none", pc |-> "idle", h |-> 0, id |-> "", text |-> <<>>,
     existing |-> {}, at |-> 0, count |-> 0,
     outcome |-> "", field |-> "", value |-> <<>>]

----------------------------------------------------------------------------
\* initializeDatabase() and runMigrations()

\* A call of initializeDatabase(): where it is suspended (pc), the handle it
\* opened (own), what runMigrations read and did, whether a storage fault hit
\* it, and the handle it returned (ret).
IdleCall ==
    [pc |-> "idle", own |-> 0, currentVersion |-> -1, todo |-> <<>>,
     applied |-> <<>>, fault |-> FALSE, ret |-> 0]

Calls == 1..MaxCalls

InitInit ==
    /\ db \in PersistedStores
    /\ now \in 0..MaxTime
    /\ dbInstance = 0
    /\ opens = 0
    /\ fkOn = {}
    /\ migStarts = 0
    /\ ini = [c \in Calls |-> IdleCall]
    /\ ops = [o \in Slots |-> IdleOp]
    /\ items = <<>>
    /\ lists = <<>>
    /\ hk = [o \in Slots |-> IdleHook]
    /\ Unmounted
    /\ issued = 0

\* Lines 31-36: return the existing instance, or start opening the database.
initializeDatabase(c) ==
    /\ ini[c].pc = "idle"
    /\ IF dbInstance # 0
       THEN ini' = [ini EXCEPT ![c].pc = "done", ![c].ret = dbInstance]
       ELSE ini' = [ini EXCEPT ![c].pc = "open"]
    /\ UNCHANGED <<db, now, dbInstance, opens, fkOn, migStarts, ops, issued, hookVars>>

\* Line 36 resolves: the handle is stored in dbInstance, and line 39 issues the
\* PRAGMA on it.
OpenDone(c) ==
    /\ ini[c].pc = "open"
    /\ opens' = opens + 1
    /\ dbInstance' = opens + 1
    /\ ini' = [ini EXCEPT ![c].pc = "pragma", ![c].own = opens + 1]
    /\ UNCHANGED <<db, now, fkOn, migStarts, ops, issued, hookVars>>

\* Line 36 rejects: dbInstance is not assigned, the catch of line 46 rethrows.
OpenFail(c) ==
    /\ ini[c].pc = "open"
    /\ ini' = [ini EXCEPT ![c].pc = "failed", ![c].fault = TRUE]
    /\ UNCHANGED <<db, now, dbInstance, opens, fkOn, migStarts, ops, issued, hookVars>>

\* Line 39 resolves; line 42 calls runMigrations with the dbInstance of that
\* moment, which issues CREATE TABLE IF NOT EXISTS schema_version (line 83).
PragmaDone(c) ==
    /\ ini[c].pc = "pragma"
    /\ fkOn' = fkOn \cup {ini[c].own}
    /\ migStarts' = migStarts + 1
    /\ ini' = [ini EXCEPT ![c].pc = "mig_create"]
    /\ UNCHANGED <<db, now, dbInstance, opens, ops, issued, hookVars>>

\* Line 83 settles; on success line 91 issues the SELECT of the version.
MigCreateDone(c) ==
    /\ ini[c].pc = "mig_create"
    /\ \E failAt \in 0..1 :
         LET r == execAsync(db, <<[op |-> "createTable", name |-> "schema_version"]>>, failAt)
         IN  /\ db' = r.db
             /\ ini' = [ini EXCEPT ![c].pc = IF r.ok THEN "mig_read" ELSE "failed",
                                   ![c].fault = @ \/ r.fault]
    /\ UNCHANGED <<now, dbInstance, opens, fkOn, migStarts, ops, issued, hookVars>>

\* Lines 91-112: the version read decides the steps; with none to run,
\* runMigrations returns and initializeDatabase returns dbInstance (line 45).
\* Otherwise the first step is issued.
MigReadDone(c) ==
    /\ ini[c].pc = "mig_read"
    /\ LET v == SelectVersion(db)
           todo == PendingSteps(v)
       IN  ini' = [ini EXCEPT ![c].currentVersion = v,
                              ![c].todo = todo,
                              ![c].pc = IF todo = <<>> THEN "done" ELSE "step",
                              ![c].ret = IF todo = <<>> THEN dbInstance ELSE 0]
    /\ UNCHANGED <<db, now, dbInstance, opens, fkOn, migStarts, ops, issued, hookVars>>

\* The SELECT of line 91 rejects.
MigReadFail(c) ==
    /\ ini[c].pc = "mig_read"
    /\ ini' = [ini EXCEPT ![c].pc = "failed", ![c].fault = TRUE]
    /\ UNCHANGED <<db, now, dbInstance, opens, fkOn, migStarts, ops, issued, hookVars>>

\* The execAsync of a migration step settles (lines 127, 171, 192), its script
\* carrying the Date.now() of the launch. On success
\* the next step is issued, or runMigrations and initializeDatabase return; on
\* failure the catches of lines 113 and 46 rethrow and dbInstance stays set.
MigStepDone(c) ==
    /\ ini[c].pc = "step"
    /\ LET step == Head(ini[c].todo)
           script == MigrationScript(step, now)
       IN  \E failAt \in 0..Len(script) :
             LET r == execAsync(db, script, failAt)
                 rest == Tail(ini[c].todo)
             IN  /\ db' = r.db
                 /\ ini' = [ini EXCEPT
                       ![c].pc = IF ~r.ok THEN "failed"
                                 ELSE IF rest = <<>> THEN "done" ELSE "step",
                       ![c].fault = @ \/ r.fault,
                       ![c].todo = IF r.ok THEN rest ELSE @,
                       ![c].applied = IF r.ok THEN Append(@, step) ELSE @,
                       ![c].ret = IF r.ok /\ rest = <<>> THEN dbInstance ELSE 0]
    /\ UNCHANGED <<now, dbInstance, opens, fkOn, migStarts, ops, issued, hookVars>>

\* The app is closed and launched again, at the same or a later time: the
\* module state is fresh, the database file is what the last launch left.
Restart ==
    /\ \E c \in Calls : ini[c].pc # "idle"
    /\ now' \in now..MaxTime
    /\ dbInstance' = 0
    /\ opens' = 0
    /\ fkOn' = {}
    /\ migStarts' = 0
    /\ ini' = [c \in Calls |-> IdleCall]
    /\ UNCHANGED <<db, ops, issued, hookVars>>

InitNext ==
    \/ \E c \in Calls : initializeDatabase(c)
    \/ \E c \in Calls : OpenDone(c)
    \/ \E c \in Calls : OpenFail(c)
    \/ \E c \in Calls : PragmaDone(c)
    \/ \E c \in Calls : MigCreateDone(c)
    \/ \E c \in Calls : MigReadDone(c)
    \/ \E c \in Calls : MigReadFail(c)
    \/ \E c \in Calls : MigStepDone(c)
    \/ Restart

SpecInit == InitInit /\ [][InitNext]_vars

----------------------------------------------------------------------------
\* Strings, as sequences of characters

MAX_LIST_NAME == 100

MAX_ITEM_TEXT == 500

DefaultName == <<"S", "h", "o", "p", "p", "i", "n", "g", " ", "L", "i", "s", "t">>

IsSpace(ch) == ch \in {" ", "\t"}

\* String.prototype.trim
RECURSIVE TrimStart(_)
TrimStart(str) ==
    IF str # <<>> /\ IsSpace(Head(str)) THEN TrimStart(Tail(str)) ELSE str

RECURSIVE TrimEnd(_)
TrimEnd(str) ==
    IF str # <<>> /\ IsSpace(str[Len(str)])
    THEN TrimEnd(SubSeq(str, 1, Len(str) - 1)) ELSE str

Trim(str) == TrimEnd(TrimStart(str))

Repeat(ch, n) == [i \in 1..n |-> ch]

\* The texts a caller passes: empty, whitespace only, padded, plain, and one
\* character over each limit.
BlankInputs == {<<>>, <<"\t", " ">>}

NameInputs ==
    BlankInputs \cup {<<" ", "b", " ">>, Repeat("a", MAX_LIST_NAME + 1)}

TextInputs ==
    BlankInputs \cup {<<" ", "b", " ">>, Repeat("a", MAX_ITEM_TEXT + 1)}

\* validateListName: [ok, value]; ok = FALSE is a thrown ValidationError.
validateListNameStrict(name, allowDefault) ==
    LET trimmed == Trim(name)
    IN  IF Len(trimmed) = 0 THEN [ok |-> FALSE, value |-> name]
        ELSE IF Len(trimmed) > MAX_LIST_NAME THEN [ok |-> FALSE, value |-> name]
        ELSE [ok |-> TRUE, value |-> trimmed]

\* A validateListName that falls back to the default name whatever allowDefault.
validateListNameLenient(name, allowDefault) ==
    LET trimmed == Trim(name)
    IN  IF Len(trimmed) = 0 THEN [ok |-> TRUE, value |-> DefaultName]
        ELSE [ok |-> Len(trimmed) <= MAX_LIST_NAME, value |-> trimmed]

validateListName(name, allowDefault) ==
    LET trimmed == Trim(name)
    IN  IF Len(trimmed) = 0
        THEN IF allowDefault THEN [ok |-> TRUE, value |-> DefaultName]
             ELSE [ok |-> FALSE, value |-> name]
        ELSE IF Len(trimmed) > MAX_LIST_NAME THEN [ok |-> FALSE, value |-> name]
        ELSE [ok |-> TRUE, value |-> trimmed]

\* A validateItemText without the emptiness test of line 41.
validateItemTextLenient(text) ==
    [ok |-> Len(Trim(text)) <= MAX_ITEM_TEXT, value |-> Trim(text)]

\* validateItemText
validateItemText(text) ==
    LET trimmed == Trim(text)
    IN  IF Len(trimmed) = 0 THEN [ok |-> FALSE, value |-> text]
        ELSE IF Len(trimmed) > MAX_ITEM_TEXT THEN [ok |-> FALSE, value |-> text]
        ELSE [ok |-> TRUE, value |-> trimmed]

----------------------------------------------------------------------------
\* Rows, entities and the statements of the services

\* PRAGMA foreign_keys, a setting of the connection: on for the handles on
\* which initializeDatabase ran the PRAGMA.
ForeignKeysOff(h) == FALSE

ForeignKeys(h) == h \in fkOn

\* Row of shopping_lists -> ShoppingList
ListFromRow(row) ==
    [id |-> row.id, name |-> row.name,
     createdAt |-> row.created_at, updatedAt |-> row.updated_at]

\* Row of shopping_items -> ShoppingItem (completed: Boolean(row.completed))
ItemFromRow(row) ==
    [id |-> row.id, listId |-> row.list_id, text |-> row.text,
     completed |-> (row.completed # 0),
     createdAt |-> row.created_at, updatedAt |-> row.updated_at]

\* SELECT * FROM shopping_lists WHERE id = ?  (the rows found: none or one)
SelectList(d, id) == {r \in d.shopping_lists : r.id = id}

\* SELECT * FROM shopping_items WHERE id = ?
SelectItem(d, id) == {r \in d.shopping_items : r.id = id}

\* SELECT COUNT(*) FROM shopping_items WHERE list_id = ?
CountItems(d, listId) == Cardinality({r \in d.shopping_items : r.list_id = listId})

\* One data statement of a service run on a connection whose foreign_keys
\* setting is fk. Yields [ok, db].
RunStmt(d, s, fk) ==
    CASE s.op = "insertList" ->
            IF "shopping_lists" \in d.schema /\ SelectList(d, s.row.id) = {}
            THEN [ok |-> TRUE, db |-> [d EXCEPT !.shopping_lists = @ \cup {s.row}]]
            ELSE [ok |-> FALSE, db |-> d]
      [] s.op = "updateList" ->
            IF "shopping_lists" \in d.schema
            THEN [ok |-> TRUE,
                  db |-> [d EXCEPT !.shopping_lists =
                            {IF r.id = s.id
                             THEN [r EXCEPT !.name = s.name, !.updated_at = s.at]
                             ELSE r : r \in @}]]
            ELSE [ok |-> FALSE, db |-> d]
      [] s.op = "deleteList" ->
            \* ON DELETE CASCADE acts only with foreign_keys = ON
            IF "shopping_lists" \in d.schema
            THEN [ok |-> TRUE,
                  db |-> [d EXCEPT !.shopping_lists = {r \in @ : r.id # s.id},
                                   !.shopping_items =
                                      IF fk THEN {r \in @ : r.list_id # s.id} ELSE @]]
            ELSE [ok |-> FALSE, db |-> d]
      [] s.op = "insertItem" ->
            \* the foreign key is checked only with foreign_keys = ON
            IF /\ {"shopping_items", "completed"} \subseteq d.schema
               /\ SelectItem(d, s.row.id) = {}
               /\ fk => SelectList(d, s.row.list_id) # {}
            THEN [ok |-> TRUE, db |-> [d EXCEPT !.shopping_items = @ \cup {s.row}]]
            ELSE [ok |-> FALSE, db |-> d]
      [] s.op = "updateItemText" ->
            IF "shopping_items" \in d.schema
            THEN [ok |-> TRUE,
                  db |-> [d EXCEPT !.shopping_items =
                            {IF r.id = s.id
                             THEN [r EXCEPT !.text = s.text, !.updated_at = s.at]
                             ELSE r : r \in @}]]
            ELSE [ok |-> FALSE, db |-> d]
      [] s.op = "updateItemCompleted" ->
            IF {"shopping_items", "completed"} \subseteq d.schema
            THEN [ok |-> TRUE,
                  db |-> [d EXCEPT !.shopping_items =
                            {IF r.id = s.id
                             THEN [r EXCEPT !.completed = s.completed, !.updated_at = s.at]
                             ELSE r : r \in @}]]
            ELSE [ok |-> FALSE, db |-> d]
      [] s.op = "deleteItem" ->
            IF "shopping_items" \in d.schema
            THEN [ok |-> TRUE,
                  db |-> [d EXCEPT !.shopping_items = {r \in @ : r.id # s.id}]]
            ELSE [ok |-> FALSE, db |-> d]
      [] s.op = "deleteItemsOfList" ->
            IF "shopping_items" \in d.schema
            THEN [ok |-> TRUE,
                  db |-> [d EXCEPT !.shopping_items = {r \in @ : r.list_id # s.id}]]
            ELSE [ok |-> FALSE, db |-> d]
      [] s.op = "deleteAllItems" ->
            IF "shopping_items" \in d.schema
            THEN [ok |-> TRUE, db |-> [d EXCEPT !.shopping_items = {}]]
            ELSE [ok |-> FALSE, db |-> d]
      [] s.op = "deleteAllLists" ->
            IF "shopping_lists" \in d.schema
            THEN [ok |-> TRUE,
                  db |-> [d EXCEPT !.shopping_lists = {},
                                   !.shopping_items = IF fk THEN {} ELSE @]]
            ELSE [ok |-> FALSE, db |-> d]
      [] s.op = "updateTheme" ->
            \* UPDATE app_settings SET theme_id = ?, updated_at = ? WHERE id = 1
            IF "app_settings" \in d.schema
            THEN [ok |-> TRUE,
                  db |-> [d EXCEPT !.app_settings =
                            {IF r.id = 1
                             THEN [r EXCEPT !.theme_id = s.themeId, !.updated_at = s.at]
                             ELSE r : r \in @}]]
            ELSE [ok |-> FALSE, db |-> d]
      [] s.op = "updateCustomColors" ->
            \* UPDATE app_settings SET theme_id = 'custom', custom_colors = ?,
            \* updated_at = ? WHERE id = 1
            IF "app_settings" \in d.schema
            THEN [ok |-> TRUE,
                  db |-> [d EXCEPT !.app_settings =
                            {IF r.id = 1
                             THEN [r EXCEPT !.theme_id = "custom",
                                            !.custom_colors = s.customColorsJson,
                                            !.updated_at = s.at]
                             ELSE r : r \in @}]]
            ELSE [ok |-> FALSE, db |-> d]
      [] s.op = "resetToDefault" ->
            \* UPDATE app_settings SET theme_id = 'default', custom_colors = NULL,
            \* updated_at = ? WHERE id = 1
            IF "app_settings" \in d.schema
            THEN [ok |-> TRUE,
                  db |-> [d EXCEPT !.app_settings =
                            {IF r.id = 1
                             THEN [r EXCEPT !.theme_id = "default",
                                            !.custom_colors = "NULL",
                                            !.updated_at = s.at]
                             ELSE r : r \in @}]]
            ELSE [ok |-> FALSE, db |-> d]

\* runAsync / execAsync of data statements: as execAsync above, on a connection.
RECURSIVE RunFrom(_, _, _, _, _)
RunFrom(d, script, i, failAt, fk) ==
    IF i > Len(script) THEN [ok |-> TRUE, db |-> d]
    ELSE IF i = failAt THEN [ok |-> FALSE, db |-> d]
    ELSE LET r == RunStmt(d, script[i], fk)
         IN  IF r.ok THEN RunFrom(r.db, script, i + 1, failAt, fk)
             ELSE [ok |-> FALSE, db |-> d]

runAsync(d, script, failAt, h) == RunFrom(d, script, 1, failAt, ForeignKeys(h))

----------------------------------------------------------------------------
\* Service calls

\* A frame is free when no call is suspended in it; a call takes the lowest
\* free frame.
Free(o) == ops[o].pc \in {"idle", "done"}

Lowest(o) == Free(o) /\ \A p \in Slots : p < o => ~Free(p)

\* The frame of a call that has passed its synchronous checks and awaits its
\* first storage call.
Started(op, pc, id, text) ==
    [IdleOp EXCEPT !.op = op, !.pc = pc, !.h = dbInstance, !.id = id,
                   !.text = text, !.at = now]

\* The frame of a settled call: the promise resolved (outcome "ok") or was
\* rejected with an error of the class outcome, on the field / entity field.
Settled(f, outcome, field) ==
    [IdleOp EXCEPT !.op = f.op, !.pc = "done", !.id = f.id,
                   !.outcome = outcome, !.field = field]

\* The synchronous start of a call, held in frame o: getDatabase() is null,
\* the validation throws a ValidationError carrying the value, or the first
\* storage call is issued.
Enter(o, frame, valid, field, value) ==
    /\ issued < MaxIssued
    /\ issued' = issued + 1
    /\ ops' = [ops EXCEPT ![o] =
                 IF dbInstance = 0 THEN Settled(frame, "DatabaseError", "")
                 ELSE IF ~valid
                      THEN [Settled(frame, "ValidationError", field)
                               EXCEPT !.value = value]
                 ELSE frame]
    /\ UNCHANGED <<db, now, procVars>>

\* A call made while other calls may be in flight takes the lowest free frame.
Begin(o, frame, valid, field, value) ==
    Lowest(o) /\ Enter(o, frame, valid, field, value)

\* The k-th call of a caller that awaits each call before it makes the next
\* is held in frame k.
InSequence(o) ==
    ops[o].pc = "idle" /\ \A p \in Slots : p < o => ops[p].pc = "done"

\* A check that goes on to the write whether or not a row was found.
CheckedFound(o, op, found, entity, next) ==
    /\ ops[o].op = op /\ ops[o].pc = "check"
    /\ \E fault \in BOOLEAN :
         ops' = [ops EXCEPT ![o] =
                   IF fault THEN Settled(ops[o], "DatabaseError", "") ELSE next]
    /\ UNCHANGED <<db, now, issued, procVars>>

\* The settling of the await of getById / COUNT: a storage fault, no row, or
\* the frame goes on to its write.
Checked(o, op, found, entity, next) ==
    /\ ops[o].op = op /\ ops[o].pc = "check"
    /\ \E fault \in BOOLEAN :
         ops' = [ops EXCEPT ![o] =
                   IF fault THEN Settled(ops[o], "DatabaseError", "")
                   ELSE IF ~found THEN Settled(ops[o], "NotFoundError", entity)
                   ELSE next]
    /\ UNCHANGED <<db, now, issued, procVars>>

\* The settling of the await of the write: the statements of script ran on the
\* frame's connection, or the storage failed.
Written(o, op, script, maxFail) ==
    /\ ops[o].op = op /\ ops[o].pc = "write"
    /\ \E failAt \in 0..maxFail :
         LET r == runAsync(db, script, failAt, ops[o].h)
         IN  /\ db' = r.db
             /\ ops' = [ops EXCEPT ![o] =
                          Settled(ops[o], IF r.ok THEN "ok" ELSE "DatabaseError", "")]
    /\ UNCHANGED <<now, issued, procVars>>

\* ---- shopping-lists.service.ts

\* create(dto): lines 153-174, up to the await of the INSERT.
ListsCreate(o, name) ==
    LET v == validateListName(name, TRUE)
    IN  Begin(o, Started("lists.create", "write", "", v.value), v.ok, "name", name)

\* The list create() inserts and returns; uuid is what generateUUID() gave.
newList(f, uuid) ==
    [id |-> uuid, name |-> f.text, createdAt |-> f.at, updatedAt |-> f.at]

ListRow(l) ==
    [id |-> l.id, name |-> l.name, created_at |-> l.createdAt, updated_at |-> l.updatedAt]

\* create: the INSERT settles (lines 171-187).
ListsCreateInsert(o, uuid) ==
    Written(o, "lists.create",
            <<[op |-> "insertList", row |-> ListRow(newList(ops[o], uuid))]>>, 1)

\* update(id, dto): lines 202-211, up to the await of getById.
ListsUpdate(o, id, name) ==
    LET v == validateListName(name, FALSE)
    IN  Begin(o, Started("lists.update", "check", id, v.value), v.ok, "name", name)

\* update: getById settles (lines 211-225); the UPDATE is issued.
ListsUpdateChecked(o) ==
    LET existing == SelectList(db, ops[o].id)
    IN  Checked(o, "lists.update", existing # {}, "ShoppingList",
                [ops[o] EXCEPT !.pc = "write", !.at = now,
                               !.existing = {ListFromRow(r) : r \in existing}])

\* The list update() returns: {...existing, name, updatedAt: now}.
updatedList(f) ==
    {[e EXCEPT !.name = f.text, !.updatedAt = f.at] : e \in f.existing}

\* update: the UPDATE settles (lines 222-244).
ListsUpdateWrite(o) ==
    Written(o, "lists.update",
            <<[op |-> "updateList", id |-> ops[o].id,
               name |-> ops[o].text, at |-> ops[o].at]>>, 1)

\* deleteList(id): lines 256-262, up to the await of getById.
ListsDelete(o, id) ==
    Begin(o, Started("lists.delete", "check", id, <<>>), TRUE, "", <<>>)

\* deleteList: getById settles (lines 262-275); the DELETE is issued.
ListsDeleteChecked(o) ==
    Checked(o, "lists.delete", SelectList(db, ops[o].id) # {}, "ShoppingList",
            [ops[o] EXCEPT !.pc = "write"])

\* deleteList: the DELETE settles (lines 272-287); the store cascades.
ListsDeleteWrite(o) ==
    Written(o, "lists.delete", <<[op |-> "deleteList", id |-> ops[o].id]>>, 1)

\* ---- shopping-items.service.ts

ItemRow(i) ==
    [id |-> i.id, list_id |-> i.listId, text |-> i.text,
     completed |-> IF i.completed THEN 1 ELSE 0,
     created_at |-> i.createdAt, updated_at |-> i.updatedAt]

\* create(dto): lines 156-168, up to the await of the list COUNT.
ItemsCreate(o, listId, text) ==
    LET v == validateItemText(text)
    IN  Begin(o, Started("items.create", "check", listId, v.value), v.ok, "text", text)

\* A create without the test of the COUNT (lines 170-172).
ItemsCreateUnchecked(o) ==
    /\ ops[o].op = "items.create" /\ ops[o].pc = "check"
    /\ ops' = [ops EXCEPT ![o] = [ops[o] EXCEPT !.pc = "write", !.at = now]]
    /\ UNCHANGED <<db, now, issued, procVars>>

\* create: the COUNT settles (lines 165-182); the INSERT is issued.
ItemsCreateChecked(o) ==
    Checked(o, "items.create", SelectList(db, ops[o].id) # {}, "listId",
            [ops[o] EXCEPT !.pc = "write", !.at = now])

\* The item create() inserts and returns.
newItem(f, uuid) ==
    [id |-> uuid, listId |-> f.id, text |-> f.text, completed |-> FALSE,
     createdAt |-> f.at, updatedAt |-> f.at]

\* create: the INSERT settles (lines 179-201).
ItemsCreateInsert(o, uuid) ==
    Written(o, "items.create",
            <<[op |-> "insertItem", row |-> ItemRow(newItem(ops[o], uuid))]>>, 1)

\* The getById of update, copy, toggleComplete and deleteItem settles
\* (lines 225-231, 271-278, 321-328, 368-374); the write is issued.
ItemChecked(o, op) ==
    LET existing == SelectItem(db, ops[o].id)
    IN  Checked(o, op, existing # {}, "id",
                [ops[o] EXCEPT !.pc = "write", !.at = now,
                               !.existing = {ItemFromRow(r) : r \in existing}])

\* update(id, dto): lines 216-225, up to the await of getById.
ItemsUpdate(o, id, text) ==
    LET v == validateItemText(text)
    IN  Begin(o, Started("items.update", "check", id, v.value), v.ok, "text", text)

ItemsUpdateChecked(o) == ItemChecked(o, "items.update")

\* The item update() returns: {...existing, text, updatedAt: now}.
updatedItem(f) ==
    {[e EXCEPT !.text = f.text, !.updatedAt = f.at] : e \in f.existing}

\* An update that replaces the row (DELETE, then INSERT of the returned item
\* as a new row) instead of updating it in place.
ItemsUpdateWriteReplace(o) ==
    Written(o, "items.update",
            <<[op |-> "deleteItem", id |-> ops[o].id]>> \o
            [k \in 1..Cardinality(ops[o].existing) |->
               [op |-> "insertItem",
                row |-> ItemRow([id |-> ops[o].id,
                                 listId |-> (CHOOSE e \in ops[o].existing : TRUE).listId,
                                 text |-> ops[o].text, completed |-> FALSE,
                                 createdAt |-> ops[o].at, updatedAt |-> ops[o].at])]], 1)

\* update: the UPDATE settles (lines 232-251).
ItemsUpdateWrite(o) ==
    Written(o, "items.update",
            <<[op |-> "updateItemText", id |-> ops[o].id,
               text |-> ops[o].text, at |-> ops[o].at]>>, 1)

\* copy(id): lines 265-271, up to the await of getById.
ItemsCopy(o, id) ==
    Begin(o, Started("items.copy", "check", id, <<>>), TRUE, "", <<>>)

ItemsCopyChecked(o) == ItemChecked(o, "items.copy")

\* A copy that starts uncompleted, as a created item does.
copiedItemPending(f, uuid) ==
    {[id |-> uuid, listId |-> sourceItem.listId, text |-> sourceItem.text,
      completed |-> FALSE, createdAt |-> f.at, updatedAt |-> f.at]
        : sourceItem \in f.existing}

\* The item copy() inserts and returns: the source's list, text and completed
\* under a new id and new timestamps.
copiedItem(f, uuid) ==
    {[id |-> uuid, listId |-> sourceItem.listId, text |-> sourceItem.text,
      completed |-> sourceItem.completed, createdAt |-> f.at, updatedAt |-> f.at]
        : sourceItem \in f.existing}

\* copy: the INSERT settles (lines 280-302).
ItemsCopyInsert(o, uuid) ==
    Written(o, "items.copy",
            <<[op |-> "insertItem",
               row |-> ItemRow(CHOOSE c \in copiedItem(ops[o], uuid) : TRUE)]>>, 1)

\* toggleComplete(id): lines 315-321, up to the await of getById.
ItemsToggle(o, id) ==
    Begin(o, Started("items.toggleComplete", "check", id, <<>>), TRUE, "", <<>>)

ItemsToggleChecked(o) == ItemChecked(o, "items.toggleComplete")

\* A toggleComplete that marks the item completed instead of flipping it.
toggledItemSet(f) ==
    {[e EXCEPT !.completed = TRUE, !.updatedAt = f.at] : e \in f.existing}

\* The item toggleComplete() returns: {...existing, completed: !completed,
\* updatedAt: now}.
toggledItem(f) ==
    {[e EXCEPT !.completed = ~e.completed, !.updatedAt = f.at] : e \in f.existing}

\* toggleComplete: the UPDATE settles (lines 327-349).
ItemsToggleWrite(o) ==
    Written(o, "items.toggleComplete",
            <<[op |-> "updateItemCompleted", id |-> ops[o].id,
               completed |-> (CHOOSE t \in {ItemRow(i) : i \in toggledItem(ops[o])}
                                 : TRUE).completed,
               at |-> ops[o].at]>>, 1)

\* The calls of: await toggleComplete(id); await toggleComplete(id').
ToggleInSequence(o, id) ==
    /\ InSequence(o)
    /\ Enter(o, Started("items.toggleComplete", "check", id, <<>>), TRUE, "", <<>>)

\* deleteItem(id): lines 362-368, up to the await of getById.
ItemsDelete(o, id) ==
    Begin(o, Started("items.deleteItem", "check", id, <<>>), TRUE, "", <<>>)

\* deleteItem: getById settles (lines 368-376); the DELETE is issued.
ItemsDeleteChecked(o) ==
    Checked(o, "items.deleteItem", SelectItem(db, ops[o].id) # {}, "id",
            [ops[o] EXCEPT !.pc = "write"])

\* deleteItem: the DELETE settles (lines 374-383).
ItemsDeleteWrite(o) ==
    Written(o, "items.deleteItem", <<[op |-> "deleteItem", id |-> ops[o].id]>>, 1)

\* deleteByListId(listId): lines 424-430, up to the await of countByListId.
ItemsDeleteByListId(o, listId) ==
    Begin(o, Started("items.deleteByListId", "check", listId, <<>>), TRUE, "", <<>>)

\* deleteByListId: countByListId settles (lines 430-433); the DELETE is issued.
ItemsDeleteByListIdCounted(o) ==
    Checked(o, "items.deleteByListId", TRUE, "",
            [ops[o] EXCEPT !.pc = "write", !.count = CountItems(db, ops[o].id)])

\* deleteByListId: the DELETE settles (lines 433-440).
ItemsDeleteByListIdWrite(o) ==
    Written(o, "items.deleteByListId",
            <<[op |-> "deleteItemsOfList", id |-> ops[o].id]>>, 1)

\* ---- the list queries: getAll, getByListId

\* The orders in which a SELECT may return the rows: every arrangement of
\* them (an ORDER BY then keeps the sorted ones; rows with equal keys come
\* in any order).
Arrangements(rows) ==
    {q \in [1..Cardinality(rows) -> rows] :
        \A i, j \in 1..Cardinality(rows) : i # j => q[i] # q[j]}

\* SELECT * FROM shopping_items WHERE list_id = ? ORDER BY created_at ASC,
\* each row mapped to a ShoppingItem (items service, lines 74-87).
SelectByListId(d, lid) ==
    {[k \in DOMAIN q |-> ItemFromRow(q[k])] :
        q \in {a \in Arrangements({r \in d.shopping_items : r.list_id = lid}) :
                  \A i, j \in DOMAIN a : i < j => a[i].created_at <= a[j].created_at}}

\* SELECT * FROM shopping_lists ORDER BY created_at DESC, each row mapped to
\* a ShoppingList (lists service, lines 77-87).
SelectAll(d) ==
    {[k \in DOMAIN q |-> ListFromRow(q[k])] :
        q \in {a \in Arrangements(d.shopping_lists) :
                  \A i, j \in DOMAIN a : i < j => a[i].created_at >= a[j].created_at}}

\* getByListId(listId): lines 67-77, up to the await of the SELECT.
ItemsGetByListId(o, lid) ==
    Begin(o, Started("items.getByListId", "check", lid, <<>>), TRUE, "", <<>>)

\* getAll(): lines 70-79, up to the await of the SELECT.
ListsGetAll(o) ==
    Begin(o, Started("lists.getAll", "check", "", <<>>), TRUE, "", <<>>)

\* The SELECT of getByListId / getAll settles: the call resolves to the rows
\* read, or rejects with a DatabaseError when the storage failed.
Queried(o, op) ==
    /\ ops[o].op = op /\ ops[o].pc = "check"
    /\ \E fault \in BOOLEAN :
         ops' = [ops EXCEPT ![o] =
                   Settled(ops[o], IF fault THEN "DatabaseError" ELSE "ok", "")]
    /\ UNCHANGED <<db, now, issued, procVars>>

\* ---- database.service.ts

\* clearAllData(): lines 273-278, up to the await of the execAsync.
clearAllData(o) ==
    Begin(o, Started("clearAllData", "write", "", <<>>), TRUE, "", <<>>)

\* clearAllData: the two DELETEs settle (lines 278-287).
clearAllDataExec(o) ==
    Written(o, "clearAllData",
            <<[op |-> "deleteAllItems"], [op |-> "deleteAllLists"]>>, 2)

\* ---- settings.service.ts

\* The theme ids used: two presets and 'custom'.
ThemePresetIds == {"default", "cyberpunk", "custom"}

\* The colour objects used.
ColorInputs ==
    {[accentColor |-> "#f00"], [accentColor |-> "#0f0", textColor |-> "#000"]}

\* JSON.stringify(customColors), for the colour objects used.
stringify(customColors) ==
    CASE customColors = [accentColor |-> "#f00"] -> "{\"accentColor\":\"#f00\"}"
      [] customColors = [accentColor |-> "#0f0", textColor |-> "#000"] ->
            "{\"accentColor\":\"#0f0\",\"textColor\":\"#000\"}"

\* JSON.parse(text), for the texts stringify writes.
parse(text) == CHOOSE customColors \in ColorInputs : stringify(customColors) = text

\* SELECT * FROM app_settings WHERE id = 1
SelectSettings(d) ==
    IF "app_settings" \in d.schema THEN {r \in d.app_settings : r.id = 1} ELSE {}

\* Row of app_settings -> AppSettings (getSettings, lines 42-48)
SettingsFromRow(result) ==
    [id |-> result.id, themeId |-> result.theme_id,
     customColors |-> IF result.custom_colors # "NULL"
                      THEN parse(result.custom_colors) ELSE "NULL",
     createdAt |-> result.created_at, updatedAt |-> result.updated_at]

\* What getSettings() resolves to on the store d.
settings(d) == {SettingsFromRow(result) : result \in SelectSettings(d)}

SettingsOps ==
    {"settings.getSettings", "settings.updateTheme",
     "settings.updateCustomColors", "settings.resetToDefault"}

\* getSettings(): lines 25-36, up to the await of the SELECT.
getSettings(o) ==
    Begin(o, Started("settings.getSettings", "check", "", <<>>), TRUE, "", <<>>)

\* updateTheme(dto): lines 70-80, up to the await of the UPDATE.
updateTheme(o, themeId) ==
    Begin(o, Started("settings.updateTheme", "write", themeId, <<>>), TRUE, "", <<>>)

\* updateCustomColors(dto): lines 99-110, up to the await of the UPDATE.
updateCustomColors(o, customColors) ==
    Begin(o, [Started("settings.updateCustomColors", "write", "", <<>>)
                 EXCEPT !.existing = {customColors}], TRUE, "", <<>>)

\* resetToDefault(): lines 128-138, up to the await of the UPDATE.
resetToDefault(o) ==
    Begin(o, Started("settings.resetToDefault", "write", "", <<>>), TRUE, "", <<>>)

\* The UPDATE of the call in frame f (lines 77-80, 107-110, 135-138).
UpdateOf(f) ==
    CASE f.op = "settings.updateTheme" ->
            <<[op |-> "updateTheme", themeId |-> f.id, at |-> f.at]>>
      [] f.op = "settings.updateCustomColors" ->
            <<[op |-> "updateCustomColors", at |-> f.at,
               customColorsJson |->
                  stringify(CHOOSE customColors \in f.existing : TRUE)]>>
      [] f.op = "settings.resetToDefault" ->
            <<[op |-> "resetToDefault", at |-> f.at]>>

\* The UPDATE of updateTheme, updateCustomColors or resetToDefault settles:
\* the call goes on to `return getSettings()`, or rejects.
SettingsUpdated(o) ==
    /\ ops[o].op \in SettingsOps /\ ops[o].pc = "write"
    /\ \E failAt \in 0..1 :
         LET r == runAsync(db, UpdateOf(ops[o]), failAt, ops[o].h)
         IN  /\ db' = r.db
             /\ ops' = [ops EXCEPT ![o] =
                          IF r.ok THEN [ops[o] EXCEPT !.pc = "check"]
                          ELSE Settled(ops[o], "DatabaseError", "")]
    /\ UNCHANGED <<now, issued, procVars>>

\* The SELECT of getSettings settles (lines 30-58): the call resolves to
\* settings(db), or rejects when the storage failed or no row was found.
SettingsRead(o) ==
    /\ ops[o].op \in SettingsOps /\ ops[o].pc = "check"
    /\ \E fault \in BOOLEAN :
         ops' = [ops EXCEPT ![o] =
                   Settled(ops[o],
                           IF fault \/ dbInstance = 0 \/ settings(db) = {}
                           THEN "DatabaseError" ELSE "ok", "")]
    /\ UNCHANGED <<db, now, issued, procVars>>

\* ---- database.service.ts: executeTransaction, closeDatabase

\* The statement lists given to executeTransaction: a list and an item of it;
\* two lists of which the second is the sample list; a list whose name is one
\* character over the limit; an update that empties the text of an item.
TransactionInputs ==
    << <<[op |-> "insertList", row |-> SampleListRow2],
         [op |-> "insertItem", row |-> SampleItemRow2]>>,
       <<[op |-> "insertList", row |-> SampleListRow2],
         [op |-> "insertList", row |-> SampleListRow]>>,
       <<[op |-> "insertList",
          row |-> [SampleListRow2 EXCEPT !.name = Repeat("a", MAX_LIST_NAME + 1)]]>>,
       <<[op |-> "updateItemText", id |-> "i1", text |-> <<>>, at |-> MaxTime]>> >>

InTransaction(d) == d.transaction # {}

\* BEGIN TRANSACTION: refused within a transaction.
BeginTransaction(d) ==
    IF InTransaction(d) THEN [ok |-> FALSE, db |-> d]
    ELSE [ok |-> TRUE, db |-> [d EXCEPT !.transaction = {d}]]

\* COMMIT
Commit(d) == [d EXCEPT !.transaction = {}]

\* The store after a rollback of the open transaction, if there is one: what
\* the engine does on its own at some storage faults and when the connection
\* is closed.
RolledBack(d) == IF InTransaction(d) THEN CHOOSE s \in d.transaction : TRUE ELSE d

\* executeTransaction(statements): lines 249-254, up to the await of the
\* execAsync; statements is TransactionInputs[k].
executeTransaction(o, k) ==
    Begin(o, [Started("executeTransaction", "write", "", <<>>) EXCEPT !.count = k],
          TRUE, "", <<>>)

\* executeTransaction: the execAsync of BEGIN TRANSACTION; statements; COMMIT
\* settles (lines 254-263). execAsync stops at the first statement that fails
\* and the code issues no ROLLBACK. failAt is the statement a storage fault
\* hits (Len + 1: the COMMIT); at a storage fault the engine may roll the
\* transaction back on its own, at an SQL error it does not.
executeTransactionExec(o) ==
    /\ ops[o].op = "executeTransaction" /\ ops[o].pc = "write"
    /\ LET statements == TransactionInputs[ops[o].count]
           begun == BeginTransaction(db)
       IN  \E failAt \in 0..(Len(statements) + 1), autoRollback \in BOOLEAN :
             LET r == runAsync(begun.db, statements, failAt, ops[o].h)
                 sql == runAsync(begun.db, statements, 0, ops[o].h)
                 fault == failAt > 0 /\ (failAt <= Len(statements) => ~r.ok)
                          /\ (sql.ok \/ sql.db # r.db)
             IN  /\ autoRollback => (begun.ok /\ fault)
                 /\ db' = IF ~begun.ok THEN db
                          ELSE IF r.ok /\ ~fault THEN Commit(r.db)
                          ELSE IF autoRollback THEN RolledBack(r.db)
                          ELSE r.db
                 /\ ops' = [ops EXCEPT ![o] =
                              Settled(ops[o],
                                      IF begun.ok /\ r.ok /\ ~fault
                                      THEN "ok" ELSE "DatabaseError", "")]
    /\ UNCHANGED <<now, issued, procVars>>

\* closeDatabase(): lines 67-73. Closing the connection rolls back the
\* transaction left open on it.
closeDatabase ==
    /\ dbInstance # 0
    /\ \A o \in Slots : Free(o)
    /\ db' = RolledBack(db)
    /\ dbInstance' = 0
    /\ UNCHANGED <<now, opens, fkOn, migStarts, ini, ops, issued, hookVars>>

\* A service call made by a direct caller of the services: no hook state moves.
Service(A) == A /\ UNCHANGED hookVars

\* The state after a successful initializeDatabase(): the store at version 3
\* (empty, or holding one list and one item, or two lists with an item each),
\* one handle with foreign keys on, the clock past the rows' timestamps.
StoreInit ==
    /\ db \in {MigratedTo(CURRENT_SCHEMA_VERSION),
               [MigratedTo(CURRENT_SCHEMA_VERSION)
                   EXCEPT !.shopping_lists = {SampleListRow},
                          !.shopping_items = {SampleItemRow}],
               [MigratedTo(CURRENT_SCHEMA_VERSION)
                   EXCEPT !.shopping_lists = {SampleListRow, SampleListRow2},
                          !.shopping_items = {SampleItemRow, SampleItemRow2}]}
    /\ now = MaxTime
    /\ dbInstance = 1
    /\ opens = 1
    /\ fkOn = {1}
    /\ migStarts = 1
    /\ ini = [c \in Calls |->
                IF c = 1
                THEN [IdleCall EXCEPT !.pc = "done", !.own = 1, !.ret = 1,
                                      !.currentVersion = CURRENT_SCHEMA_VERSION]
                ELSE IdleCall]
    /\ ops = [o \in Slots |-> IdleOp]
    /\ items = <<>>
    /\ lists = <<>>
    /\ hk = [o \in Slots |-> IdleHook]
    /\ Unmounted
    /\ issued = 0

StoreNext ==
    \/ \E o \in Slots, name \in NameInputs : Service(ListsCreate(o, name))
    \/ \E o \in Slots, uuid \in ListIds : Service(ListsCreateInsert(o, uuid))
    \/ \E o \in Slots, id \in ListIds, name \in NameInputs : Service(ListsUpdate(o, id, name))
    \/ \E o \in Slots : Service(ListsUpdateChecked(o))
    \/ \E o \in Slots : Service(ListsUpdateWrite(o))
    \/ \E o \in Slots, id \in ListIds : Service(ListsDelete(o, id))
    \/ \E o \in Slots : Service(ListsDeleteChecked(o))
    \/ \E o \in Slots : Service(ListsDeleteWrite(o))
    \/ \E o \in Slots, id \in ListIds, text \in TextInputs : Service(ItemsCreate(o, id, text))
    \/ \E o \in Slots : Service(ItemsCreateChecked(o))
    \/ \E o \in Slots, uuid \in Ids : Service(ItemsCreateInsert(o, uuid))
    \/ \E o \in Slots, id \in Ids, text \in TextInputs : Service(ItemsUpdate(o, id, text))
    \/ \E o \in Slots : Service(ItemsUpdateChecked(o))
    \/ \E o \in Slots : Service(ItemsUpdateWrite(o))
    \/ \E o \in Slots, id \in Ids : Service(ItemsCopy(o, id))
    \/ \E o \in Slots : Service(ItemsCopyChecked(o))
    \/ \E o \in Slots, uuid \in Ids : Service(ItemsCopyInsert(o, uuid))
    \/ \E o \in Slots, id \in Ids : Service(ItemsToggle(o, id))
    \/ \E o \in Slots : Service(ItemsToggleChecked(o))
    \/ \E o \in Slots : Service(ItemsToggleWrite(o))
    \/ \E o \in Slots, id \in Ids : Service(ItemsDelete(o, id))
    \/ \E o \in Slots : Service(ItemsDeleteChecked(o))
    \/ \E o \in Slots : Service(ItemsDeleteWrite(o))
    \/ \E o \in Slots, id \in ListIds : Service(ItemsDeleteByListId(o, id))
    \/ \E o \in Slots : Service(ItemsDeleteByListIdCounted(o))
    \/ \E o \in Slots : Service(ItemsDeleteByListIdWrite(o))
    \/ \E o \in Slots : Service(clearAllData(o))
    \/ \E o \in Slots : Service(clearAllDataExec(o))

SpecStore == StoreInit /\ [][StoreNext]_vars

\* toggleComplete called again and again by one caller, each call awaited.
ToggleNext ==
    \/ \E o \in Slots, id \in Ids : Service(ToggleInSequence(o, id))
    \/ \E o \in Slots : Service(ItemsToggleChecked(o))
    \/ \E o \in Slots : Service(ItemsToggleWrite(o))

SpecToggle == StoreInit /\ [][ToggleNext]_vars

\* A call made by a caller that has awaited its previous calls.
Awaited(A) == (\A o \in Slots : Free(o)) /\ Service(A)

\* At the launch of the app the stored schema is the one before the settings
\* table, or the current one; the clock is past the rows' timestamps.
SettingsInit ==
    /\ InitInit
    /\ SelectVersion(db) >= CURRENT_SCHEMA_VERSION - 1
    /\ now = MaxTime

\* The settings service and clearAllData, each call awaited, called while
\* launches of the app initialize the store; the app is closed between two
\* calls.
SettingsNext ==
    \/ \E c \in Calls : initializeDatabase(c) \/ OpenDone(c) \/ OpenFail(c)
    \/ \E c \in Calls : PragmaDone(c) \/ MigCreateDone(c)
    \/ \E c \in Calls : MigReadDone(c) \/ MigReadFail(c) \/ MigStepDone(c)
    \/ Restart /\ \A o \in Slots : Free(o)
    \/ \E o \in Slots : Awaited(getSettings(o))
    \/ \E o \in Slots, themeId \in ThemePresetIds : Awaited(updateTheme(o, themeId))
    \/ \E o \in Slots, customColors \in ColorInputs :
          Awaited(updateCustomColors(o, customColors))
    \/ \E o \in Slots : Awaited(resetToDefault(o))
    \/ \E o \in Slots : Service(SettingsUpdated(o))
    \/ \E o \in Slots : Service(SettingsRead(o))
    \/ \E o \in Slots : Awaited(clearAllData(o))
    \/ \E o \in Slots : Service(clearAllDataExec(o))

\* executeTransaction and list creates, each call awaited, until the connection
\* is closed.
TransactionNext ==
    \/ \E o \in Slots, k \in DOMAIN TransactionInputs : Awaited(executeTransaction(o, k))
    \/ \E o \in Slots : Service(executeTransactionExec(o))
    \/ \E o \in Slots, name \in NameInputs : Awaited(ListsCreate(o, name))
    \/ \E o \in Slots, uuid \in ListIds : Service(ListsCreateInsert(o, uuid))
    \/ closeDatabase

SpecTransaction == StoreInit /\ [][TransactionNext]_vars

SpecSettings == SettingsInit /\ [][SettingsNext]_vars

----------------------------------------------------------------------------
\* The hooks: useShoppingItems(listId) and useShoppingLists()

\* The frame of a hook call suspended on its service call: which mutation,
\* on which id, and previousItems / previousLists where the hook took one.
Waiting(kind, id, previous) == [kind |-> kind, id |-> id, previous |-> previous]

\* setItems(previousItems) / setLists(previousLists)
RollbackKeep(cache, previous) == cache

Rollback(cache, previous) == previous

\* prevItems.map(item => item.id === id ? updatedItem : item)
Replace(cache, id, item) ==
    [k \in DOMAIN cache |-> IF cache[k].id = id THEN item ELSE cache[k]]

\* prevItems.map(item =>
\*   item.id === id ? {...item, text: dto.text, updatedAt: Date.now()} : item)
SetText(cache, id, text) ==
    [k \in DOMAIN cache |->
        IF cache[k].id = id
        THEN [cache[k] EXCEPT !.text = text, !.updatedAt = now] ELSE cache[k]]

\* prevItems.map(item =>
\*   item.id === id
\*     ? {...item, completed: !item.completed, updatedAt: Date.now()} : item)
Toggle(cache, id) ==
    [k \in DOMAIN cache |->
        IF cache[k].id = id
        THEN [cache[k] EXCEPT !.completed = ~cache[k].completed, !.updatedAt = now]
        ELSE cache[k]]

\* prevItems.filter(item => item.id !== id)
RECURSIVE Without(_, _)
Without(cache, id) ==
    IF cache = <<>> THEN <<>>
    ELSE IF Head(cache).id = id THEN Without(Tail(cache), id)
    ELSE <<Head(cache)>> \o Without(Tail(cache), id)

\* copyItem's insertion: after the source item, or at the end if it is absent
\* (findIndex, splice).
InsertAfter(cache, id, item) ==
    LET found == {k \in DOMAIN cache : cache[k].id = id}
    IN  IF found = {} THEN Append(cache, item)
        ELSE LET sourceIndex == CHOOSE k \in found : \A j \in found : k <= j
             IN  SubSeq(cache, 1, sourceIndex) \o <<item>>
                    \o SubSeq(cache, sourceIndex + 1, Len(cache))

\* The hook a call belongs to.
HookOf(kind) ==
    IF kind \in {"createList", "deleteList", "fetchLists"}
    THEN "useShoppingLists" ELSE "useShoppingItems"

\* The hook's code after its await of the service call: the result applied on
\* success; on rejection the rollback of the optimistic mutations and
\* setError(error); a fetch ends with setIsLoading(false).
Continue(o, ok, result) ==
    LET k == hk[o]
        r == CHOOSE x \in result : TRUE
    IN  /\ hk' = [hk EXCEPT ![o] = IdleHook]
        /\ error' = IF ok THEN error
                     ELSE [error EXCEPT ![HookOf(k.kind)] = ops'[o].outcome]
        /\ isLoading' = IF k.kind \in {"fetchItems", "fetchLists"}
                         THEN [isLoading EXCEPT ![HookOf(k.kind)] = FALSE]
                         ELSE isLoading
        /\ UNCHANGED <<currentListId, theme>>
        /\ items' =
             CASE k.kind = "createItem" -> IF ok THEN Append(items, r) ELSE items
               [] k.kind = "fetchItems" -> IF ok THEN r ELSE items
               [] k.kind = "copyItem" -> IF ok THEN InsertAfter(items, k.id, r) ELSE items
               [] k.kind \in {"updateItem", "toggleComplete"} ->
                    IF ok THEN Replace(items, k.id, r)
                    ELSE Rollback(items, k.previous)
               [] k.kind = "deleteItem" ->
                    IF ok THEN items ELSE Rollback(items, k.previous)
               [] OTHER -> items
        /\ lists' =
             CASE k.kind = "createList" -> IF ok THEN <<r>> \o lists ELSE lists
               [] k.kind = "deleteList" ->
                    IF ok THEN lists ELSE Rollback(lists, k.previous)
               [] k.kind = "fetchLists" -> IF ok THEN r ELSE lists
               [] OTHER -> lists

\* A hook mutation up to its await: the optimistic setItems / setLists if it
\* has one, then the service call. A service call that rejects before its
\* first await (validation) is caught at once and the caches are rolled back.
Call(o, A, frame, optimisticItems, optimisticLists) ==
    /\ A
    /\ UNCHANGED <<isLoading, currentListId, theme>>
    /\ IF ops'[o].pc = "done"
       THEN /\ hk' = hk
            /\ error' = [error EXCEPT ![HookOf(frame.kind)] = ops'[o].outcome]
            /\ items' = IF frame.kind \in {"updateItem", "toggleComplete", "deleteItem"}
                        THEN Rollback(optimisticItems, frame.previous) ELSE items
            /\ lists' = IF frame.kind = "deleteList"
                        THEN Rollback(optimisticLists, frame.previous) ELSE lists
       ELSE /\ hk' = [hk EXCEPT ![o] = frame]
            /\ error' = [error EXCEPT ![HookOf(frame.kind)] = "null"]
            /\ items' = optimisticItems
            /\ lists' = optimisticLists

\* A fetch up to its await: setIsLoading(true), setError(null), then the
\* query. A query that rejects before its await is caught at once.
Fetch(o, A, frame) ==
    /\ A
    /\ UNCHANGED <<items, lists, theme>>
    /\ IF ops'[o].pc = "done"
       THEN /\ hk' = hk
            /\ error' = [error EXCEPT ![HookOf(frame.kind)] = ops'[o].outcome]
            /\ isLoading' = [isLoading EXCEPT ![HookOf(frame.kind)] = FALSE]
       ELSE /\ hk' = [hk EXCEPT ![o] = frame]
            /\ error' = [error EXCEPT ![HookOf(frame.kind)] = "null"]
            /\ isLoading' = [isLoading EXCEPT ![HookOf(frame.kind)] = TRUE]

\* A storage call of a hook's service call settles; if that settles the
\* service call, the hook goes on.
Resume(o, A, result) ==
    /\ hk[o].kind # "none"
    /\ A
    /\ IF ops'[o].pc = "done"
       THEN Continue(o, ops'[o].outcome = "ok", result)
       ELSE UNCHANGED hookVars

\* ---- use-shopping-items.ts

\* fetchItems(): lines 58-63, up to the await of the service, for the listId
\* of the render that made the callback.
fetchItems(o, lid) ==
    Fetch(o, ItemsGetByListId(o, lid), Waiting("fetchItems", lid, <<>>))

\* The mount effect (lines 251-253) or refresh() (lines 246-248).
refresh(o) == fetchItems(o, currentListId) /\ UNCHANGED currentListId

\* A render with another listId: fetchItems is made anew and the effect
\* (lines 251-253) runs it; the items state is kept.
rerender(o, lid) ==
    /\ lid # currentListId
    /\ currentListId' = lid
    /\ fetchItems(o, lid)

\* createItem(dto): lines 79-85, up to the await of the service.
createItem(o, lid, text) ==
    Call(o, ItemsCreate(o, lid, text),
         Waiting("createItem", "", <<>>), items, lists)

\* updateItem(id, dto): lines 102-120.
updateItem(o, id, text) ==
    Call(o, ItemsUpdate(o, id, text),
         Waiting("updateItem", id, items),
         SetText(items, id, text), lists)

\* copyItem(id): lines 145-151.
copyItem(o, id) ==
    Call(o, ItemsCopy(o, id), Waiting("copyItem", id, <<>>), items, lists)

\* toggleComplete(id): lines 175-193.
toggleComplete(o, id) ==
    Call(o, ItemsToggle(o, id),
         Waiting("toggleComplete", id, items),
         Toggle(items, id), lists)

\* deleteItem(id): lines 218-228.
deleteItem(o, id) ==
    Call(o, ItemsDelete(o, id),
         Waiting("deleteItem", id, items), Without(items, id), lists)

\* ---- use-settings.ts (useShoppingLists)

\* fetchLists(): lines 103-108, up to the await of the service.
fetchLists(o) ==
    Fetch(o, ListsGetAll(o), Waiting("fetchLists", "", <<>>)) /\ UNCHANGED currentListId

\* createList(dto): lines 124-130.
createList(o, name) ==
    Call(o, ListsCreate(o, name), Waiting("createList", "", <<>>), items, lists)

\* deleteList(id): lines 147-157.
deleteList(o, id) ==
    Call(o, ListsDelete(o, id),
         Waiting("deleteList", id, lists), items, Without(lists, id))

\* The state after the database is initialized and both hooks have mounted
\* and fetched: one list holding one item, in the store and in the caches.
HookInit ==
    /\ db = [MigratedTo(CURRENT_SCHEMA_VERSION)
                EXCEPT !.shopping_lists = {SampleListRow},
                       !.shopping_items = {SampleItemRow}]
    /\ now = 0
    /\ dbInstance = 1
    /\ opens = 1
    /\ fkOn = {1}
    /\ migStarts = 1
    /\ ini = [c \in Calls |->
                IF c = 1
                THEN [IdleCall EXCEPT !.pc = "done", !.own = 1, !.ret = 1,
                                      !.currentVersion = CURRENT_SCHEMA_VERSION]
                ELSE IdleCall]
    /\ ops = [o \in Slots |-> IdleOp]
    /\ items = <<ItemFromRow(SampleItemRow)>>
    /\ lists = <<ListFromRow(SampleListRow)>>
    /\ hk = [o \in Slots |-> IdleHook]
    /\ isLoading = [h \in Hooks |-> FALSE]
    /\ error = [h \in Hooks |-> "null"]
    /\ currentListId = HookListId
    /\ theme = DefaultTheme
    /\ issued = 0

HookNext ==
    \/ \E o \in Slots, text \in TextInputs : createItem(o, currentListId, text)
    \/ \E o \in Slots, id \in Ids, text \in TextInputs : updateItem(o, id, text)
    \/ \E o \in Slots, id \in Ids : copyItem(o, id)
    \/ \E o \in Slots, id \in Ids : toggleComplete(o, id)
    \/ \E o \in Slots, id \in Ids : deleteItem(o, id)
    \/ \E o \in Slots, name \in NameInputs : createList(o, name)
    \/ \E o \in Slots, id \in ListIds : deleteList(o, id)
    \/ \E o \in Slots : Resume(o, ItemsCreateChecked(o), {})
    \/ \E o \in Slots, uuid \in Ids :
          Resume(o, ItemsCreateInsert(o, uuid), {newItem(ops[o], uuid)})
    \/ \E o \in Slots : Resume(o, ItemsUpdateChecked(o), {})
    \/ \E o \in Slots : Resume(o, ItemsUpdateWrite(o), updatedItem(ops[o]))
    \/ \E o \in Slots : Resume(o, ItemsCopyChecked(o), {})
    \/ \E o \in Slots, uuid \in Ids :
          Resume(o, ItemsCopyInsert(o, uuid), copiedItem(ops[o], uuid))
    \/ \E o \in Slots : Resume(o, ItemsToggleChecked(o), {})
    \/ \E o \in Slots : Resume(o, ItemsToggleWrite(o), toggledItem(ops[o]))
    \/ \E o \in Slots : Resume(o, ItemsDeleteChecked(o), {})
    \/ \E o \in Slots : Resume(o, ItemsDeleteWrite(o), {})
    \/ \E o \in Slots, uuid \in ListIds :
          Resume(o, ListsCreateInsert(o, uuid), {newList(ops[o], uuid)})
    \/ \E o \in Slots : Resume(o, ListsDeleteChecked(o), {})
    \/ \E o \in Slots : Resume(o, ListsDeleteWrite(o), {})

SpecHook == HookInit /\ [][HookNext]_vars

\* ---- useShoppingItems with its fetches

\* A second item of list l1, created after the first, and the uuid left for a
\* created or copied item.
SampleItemRow3 ==
    [SampleItemRow2 EXCEPT !.list_id = "l1", !.created_at = MaxTime,
                           !.updated_at = MaxTime]

NewIds == {"i3"}

\* The store under the list screen: lists l1 and l2, two items in l1, all
\* created before the screen opens.
ScreenStore ==
    [MigratedTo(CURRENT_SCHEMA_VERSION)
        EXCEPT !.shopping_lists = {SampleListRow, SampleListRow2},
               !.shopping_items = {SampleItemRow, SampleItemRow3}]

\* The first render of useShoppingItems(l1) on an initialized database: the
\* useState values, no effect run yet.
MountInit ==
    /\ db = ScreenStore
    /\ now = MaxTime + 1
    /\ dbInstance = 1
    /\ opens = 1
    /\ fkOn = {1}
    /\ migStarts = 1
    /\ ini = [c \in Calls |->
                IF c = 1
                THEN [IdleCall EXCEPT !.pc = "done", !.own = 1, !.ret = 1,
                                      !.currentVersion = CURRENT_SCHEMA_VERSION]
                ELSE IdleCall]
    /\ ops = [o \in Slots |-> IdleOp]
    /\ items = <<>>
    /\ lists = <<>>
    /\ hk = [o \in Slots |-> IdleHook]
    /\ Unmounted
    /\ issued = 0

\* The hook after its mount fetch has succeeded.
LoadedInit ==
    /\ db = ScreenStore
    /\ now = MaxTime + 1
    /\ dbInstance = 1
    /\ opens = 1
    /\ fkOn = {1}
    /\ migStarts = 1
    /\ ini = [c \in Calls |->
                IF c = 1
                THEN [IdleCall EXCEPT !.pc = "done", !.own = 1, !.ret = 1,
                                      !.currentVersion = CURRENT_SCHEMA_VERSION]
                ELSE IdleCall]
    /\ ops = [o \in Slots |-> IdleOp]
    /\ items \in SelectByListId(ScreenStore, HookListId)
    /\ lists = <<>>
    /\ hk = [o \in Slots |-> IdleHook]
    /\ isLoading = [h \in Hooks |-> FALSE]
    /\ error = [h \in Hooks |-> "null"]
    /\ currentListId = HookListId
    /\ theme = DefaultTheme
    /\ issued = 0

\* The storage call of a fetch settles and the hook goes on.
FetchItemsSettled(o) ==
    \E fetchedItems \in SelectByListId(db, ops[o].id) :
       Resume(o, Queried(o, "items.getByListId"), {fetchedItems})

FetchListsSettled(o) ==
    \E fetchedLists \in SelectAll(db) :
       Resume(o, Queried(o, "lists.getAll"), {fetchedLists})

\* The hook's fetches and its mutations of the list it shows, with the
\* settling of their storage calls.
CacheNext ==
    \/ \E o \in Slots : refresh(o)
    \/ \E o \in Slots : FetchItemsSettled(o)
    \/ \E o \in Slots, text \in TextInputs : createItem(o, currentListId, text)
    \/ \E o \in Slots, id \in Ids, text \in TextInputs : updateItem(o, id, text)
    \/ \E o \in Slots, id \in Ids : copyItem(o, id)
    \/ \E o \in Slots, id \in Ids : toggleComplete(o, id)
    \/ \E o \in Slots, id \in Ids : deleteItem(o, id)
    \/ \E o \in Slots : Resume(o, ItemsCreateChecked(o), {})
    \/ \E o \in Slots, uuid \in NewIds :
          Resume(o, ItemsCreateInsert(o, uuid), {newItem(ops[o], uuid)})
    \/ \E o \in Slots : Resume(o, ItemsUpdateChecked(o), {})
    \/ \E o \in Slots : Resume(o, ItemsUpdateWrite(o), updatedItem(ops[o]))
    \/ \E o \in Slots : Resume(o, ItemsCopyChecked(o), {})
    \/ \E o \in Slots, uuid \in NewIds :
          Resume(o, ItemsCopyInsert(o, uuid), copiedItem(ops[o], uuid))
    \/ \E o \in Slots : Resume(o, ItemsToggleChecked(o), {})
    \/ \E o \in Slots : Resume(o, ItemsToggleWrite(o), toggledItem(ops[o]))
    \/ \E o \in Slots : Resume(o, ItemsDeleteChecked(o), {})
    \/ \E o \in Slots : Resume(o, ItemsDeleteWrite(o), {})

SpecCache == LoadedInit /\ [][CacheNext]_vars

\* The same from the first render, with renders for another list, createItem
\* calls for any list, and the fetches of useShoppingLists.
MountNext ==
    \/ CacheNext
    \/ \E o \in Slots, lid \in ListIds : rerender(o, lid)
    \/ \E o \in Slots, lid \in ListIds, text \in TextInputs :
          lid # currentListId /\ createItem(o, lid, text)
    \/ \E o \in Slots : fetchLists(o)
    \/ \E o \in Slots : FetchListsSettled(o)

SpecMount == MountInit /\ [][MountNext]_vars

\* The fetches alone: the mount effects, refresh() and renders for another
\* list, with no mutation called.
FetchNext ==
    \/ \E o \in Slots : refresh(o)
    \/ \E o \in Slots, lid \in ListIds : rerender(o, lid)
    \/ \E o \in Slots : fetchLists(o)
    \/ \E o \in Slots : FetchItemsSettled(o)
    \/ \E o \in Slots : FetchListsSettled(o)

SpecFetch == MountInit /\ [][FetchNext]_vars

\* The storage call of a fetch in flight settles.
SpecFetchFair ==
    /\ SpecFetch
    /\ \A o \in Slots : WF_vars(FetchItemsSettled(o)) /\ WF_vars(FetchListsSettled(o))

\* ---- theme-context.tsx (ThemeProvider)

\* The calls of the provider: the load of the mount effect and the setters.
ThemeCalls == {"loadSettings", "setTheme", "setCustomColors", "resetTheme"}

\* settings.customColors as the provider holds it: the empty set for null,
\* else the parsed object.
StoredColors(result) ==
    IF result.custom_colors # "NULL" THEN {parse(result.custom_colors)} ELSE {}

\* The provider's state after the call of frame k has settled: set from the
\* arguments on success (from the settings read, for the load), the
\* fallback after a failed load, unchanged after a failed setter.
ThemeAfter(k, ok, d) ==
    CASE k.kind = "loadSettings" ->
            IF ok THEN LET result == CHOOSE r \in SelectSettings(d) : TRUE
                       IN  [themeId |-> result.theme_id,
                            customColors |-> StoredColors(result)]
            ELSE DefaultTheme
      [] k.kind = "setTheme" ->
            IF ok THEN [themeId |-> k.id,
                        customColors |-> IF k.id # "custom" THEN {}
                                         ELSE theme.customColors]
            ELSE theme
      [] k.kind = "setCustomColors" ->
            IF ok THEN [themeId |-> "custom", customColors |-> Range(k.previous)]
            ELSE theme
      [] k.kind = "resetTheme" -> IF ok THEN DefaultTheme ELSE theme

\* A call of the provider up to its await of the settings service; the
\* screens await one call before they make the next.
ThemeCall(o, A, frame) ==
    /\ \A p \in Slots : Free(p) /\ hk[p].kind = "none"
    /\ A
    /\ UNCHANGED <<items, lists, isLoading, error, currentListId>>
    /\ IF ops'[o].pc = "done"
       THEN hk' = hk /\ theme' = ThemeAfter(frame, FALSE, db)
       ELSE hk' = [hk EXCEPT ![o] = frame] /\ theme' = theme

\* A storage call of the provider's service call settles; if that settles the
\* service call, the provider goes on.
ThemeResume(o, A) ==
    /\ hk[o].kind \in ThemeCalls
    /\ A
    /\ UNCHANGED <<items, lists, isLoading, error, currentListId>>
    /\ IF ops'[o].pc = "done"
       THEN /\ hk' = [hk EXCEPT ![o] = IdleHook]
            /\ theme' = ThemeAfter(hk[o], ops'[o].outcome = "ok", db')
       ELSE UNCHANGED <<hk, theme>>

\* The mount effect: lines 74-93. Also the launch after a restart.
loadSettings(o) == ThemeCall(o, getSettings(o), Waiting("loadSettings", "", <<>>))

\* setTheme(newThemeId): lines 97-110.
setTheme(o, newThemeId) ==
    ThemeCall(o, updateTheme(o, newThemeId), Waiting("setTheme", newThemeId, <<>>))

\* setCustomColors(colors): lines 115-124; the frame keeps the argument.
setCustomColors(o, colors) ==
    ThemeCall(o, updateCustomColors(o, colors),
              Waiting("setCustomColors", "", <<colors>>))

\* resetTheme(): lines 129-138.
resetTheme(o) == ThemeCall(o, resetToDefault(o), Waiting("resetTheme", "", <<>>))

ThemeNext ==
    \/ \E o \in Slots : loadSettings(o)
    \/ \E o \in Slots, newThemeId \in ThemePresetIds : setTheme(o, newThemeId)
    \/ \E o \in Slots, colors \in ColorInputs : setCustomColors(o, colors)
    \/ \E o \in Slots : resetTheme(o)
    \/ \E o \in Slots : ThemeResume(o, SettingsUpdated(o))
    \/ \E o \in Slots : ThemeResume(o, SettingsRead(o))

SpecTheme == StoreInit /\ [][ThemeNext]_vars

\* ---- the list screen (ListDetailScreen) and its rows (ListItem)

\* isCreating: set before the screen awaits createItem, reset in its finally.
isCreating == \E o \in Slots : hk[o].kind = "createItem"

\* The screen renders the list, not the spinner or the error state.
ListShown ==
    ~isLoading["useShoppingItems"] /\ error["useShoppingItems"] = "null"

\* The row of item id is on the screen.
RowShown(id) == ListShown /\ \E k \in DOMAIN items : items[k].id = id

\* The add button (disabled while isCreating) and the submit of the text.
handleCreateSubmit(o, text) ==
    /\ ListShown /\ ~isCreating
    /\ Trim(text) # <<>>
    /\ createItem(o, currentListId, Trim(text))

\* ListItem handleSave -> handleEditItem: blank or unchanged text calls
\* nothing.
handleEditItem(o, id, text) ==
    /\ RowShown(id)
    /\ Trim(text) # <<>>
    /\ \A k \in DOMAIN items : items[k].id = id => Trim(text) # items[k].text
    /\ updateItem(o, id, Trim(text))

handleToggleComplete(o, id) == RowShown(id) /\ toggleComplete(o, id)

handleCopyItem(o, id) == RowShown(id) /\ copyItem(o, id)

\* The Delete button of the confirmation alert.
handleDeleteItem(o, id) == RowShown(id) /\ deleteItem(o, id)

\* The screen over the loaded hook: the user's triggers, the refresh of
\* useFocusEffect and of Try Again, and the settling of the storage calls.
ScreenNext ==
    \/ \E o \in Slots, text \in TextInputs : handleCreateSubmit(o, text)
    \/ \E o \in Slots, id \in Ids, text \in TextInputs : handleEditItem(o, id, text)
    \/ \E o \in Slots, id \in Ids \cup NewIds : handleToggleComplete(o, id)
    \/ \E o \in Slots, id \in Ids \cup NewIds : handleCopyItem(o, id)
    \/ \E o \in Slots, id \in Ids \cup NewIds : handleDeleteItem(o, id)
    \/ \E o \in Slots : refresh(o)
    \/ \E o \in Slots : FetchItemsSettled(o)
    \/ \E o \in Slots : Resume(o, ItemsCreateChecked(o), {})
    \/ \E o \in Slots, uuid \in NewIds :
          Resume(o, ItemsCreateInsert(o, uuid), {newItem(ops[o], uuid)})
    \/ \E o \in Slots : Resume(o, ItemsUpdateChecked(o), {})
    \/ \E o \in Slots : Resume(o, ItemsUpdateWrite(o), updatedItem(ops[o]))
    \/ \E o \in Slots : Resume(o, ItemsCopyChecked(o), {})
    \/ \E o \in Slots, uuid \in NewIds :
          Resume(o, ItemsCopyInsert(o, uuid), copiedItem(ops[o], uuid))
    \/ \E o \in Slots : Resume(o, ItemsToggleChecked(o), {})
    \/ \E o \in Slots : Resume(o, ItemsToggleWrite(o), toggledItem(ops[o]))
    \/ \E o \in Slots : Resume(o, ItemsDeleteChecked(o), {})
    \/ \E o \in Slots : Resume(o, ItemsDeleteWrite(o), {})

SpecScreen == LoadedInit /\ [][ScreenNext]_vars

----------------------------------------------------------------------------
\* Properties of initialization and migration

Versions(d) == {r.version : r \in d.schema_version}

\* What migration step s leaves in the store besides its version row.
StepChanges(s, d) ==
    CASE s = 1 -> {"shopping_lists", "shopping_items",
                   "idx_lists_created", "idx_items_list"} \subseteq d.schema
      [] s = 2 -> /\ "completed" \in d.schema
                  /\ \A r \in d.shopping_items : "completed" \in DOMAIN r
      [] s = 3 -> /\ "app_settings" \in d.schema
                  /\ \E r \in d.app_settings : d.app_settings = {r} /\ r.id = 1

\* Only one initializeDatabase() call was made in this launch.
Solo == Cardinality({c \in Calls : ini[c].pc # "idle"}) = 1

\* C5: across the initializeDatabase() calls of one process, overlapping ones
\* included, the connection is opened once, the migration engine is started at
\* most once, and every call that returns, returns the same handle.
C5_OpenedExactlyOnce ==
    /\ opens <= 1
    /\ migStarts <= 1
    /\ \A c1, c2 \in Calls :
         ini[c1].pc = "done" /\ ini[c2].pc = "done" => ini[c1].ret = ini[c2].ret

\* C6: a migration step that throws partway leaves the database at the prior
\* consistent version, so the engine run again on the next launch completes: a
\* run that is alone in its launch and meets no storage fault never fails.
C6_RetryCompletes ==
    \A c \in Calls : ~(ini[c].pc = "failed" /\ ~ini[c].fault /\ Solo)

\* C7: a run of runMigrations that read version v and returned has applied
\* exactly the steps v+1..3 in ascending order; each applied step has its one
\* version row and its changes in the store; the highest version is 3.
C7_StepsAboveVersionAscending ==
    \A c \in Calls :
      /\ \A s \in Range(ini[c].applied) :
           /\ Cardinality({r \in db.schema_version : r.version = s}) = 1
           /\ StepChanges(s, db)
      /\ ini[c].pc = "done" /\ ini[c].currentVersion >= 0 =>
           /\ ini[c].applied =
                [i \in 1..(CURRENT_SCHEMA_VERSION - ini[c].currentVersion)
                    |-> ini[c].currentVersion + i]
           /\ SelectVersion(db) = CURRENT_SCHEMA_VERSION
           /\ Versions(db) = 1..CURRENT_SCHEMA_VERSION

\* A run that started at version 1 with an item in the store has applied
\* steps 2 and 3 and returned.
C7_Witness ==
    \E c \in Calls :
      /\ ini[c].pc = "done"
      /\ ini[c].currentVersion = 1
      /\ ini[c].applied = <<2, 3>>
      /\ db.shopping_items # {}

\* C8: once a run has brought the store to version 3, a further run of the
\* migration engine applies no step and leaves the schema, the schema_version
\* rows and every list, item and settings row as they were.
C8_SecondRunIsNoOp ==
    [][SelectVersion(db) = CURRENT_SCHEMA_VERSION =>
         /\ db' = db
         /\ \A c \in Calls :
              /\ Len(ini'[c].applied) <= Len(ini[c].applied)
              /\ ini'[c].pc = "step" => ini[c].pc = "step"]_vars

\* A run on a fully migrated store that holds data has read version 3 and
\* returned without applying a step.
C8_Witness ==
    \E c \in Calls :
      /\ ini[c].pc = "done"
      /\ ini[c].currentVersion = CURRENT_SCHEMA_VERSION
      /\ ini[c].applied = <<>>
      /\ db.shopping_items # {}

\* C9: getDatabase() gives a handle only after an initializeDatabase() call
\* has completed successfully.
C9_HandleOnlyAfterInit ==
    dbInstance # 0 => \E c \in Calls : ini[c].pc = "done"

----------------------------------------------------------------------------
\* Properties of the services

ItemsOf(d, listId) == {r \in d.shopping_items : r.list_id = listId}

ItemsNotOf(d, listId) == {r \in d.shopping_items : r.list_id # listId}

\* C1: when ShoppingListsService.deleteList(id) resolves, the store holds no
\* list id and no item whose list_id is id, and the items of every other list
\* are the ones it held before the DELETE.
C1_DeleteListCascades ==
    [][\A o \in Slots :
         (/\ ops[o].op = "lists.delete" /\ ops[o].pc = "write"
          /\ ops'[o].pc = "done" /\ ops'[o].outcome = "ok")
         => /\ SelectList(db', ops[o].id) = {}
            /\ ItemsOf(db', ops[o].id) = {}
            /\ ItemsNotOf(db', ops[o].id) = ItemsNotOf(db, ops[o].id)]_vars

\* deleteList("l1") has resolved: the item of l1 is gone with it, the item of
\* l2 is still stored.
C1_Witness ==
    \E o \in Slots :
       /\ ops[o].op = "lists.delete" /\ ops[o].pc = "done"
       /\ ops[o].outcome = "ok" /\ ops[o].id = "l1"
       /\ SelectList(db, "l1") = {} /\ SelectItem(db, "i1") = {}
       /\ SelectItem(db, "i2") = {SampleItemRow2}

\* C2: in every state of the store, under every interleaving of the service
\* calls, each stored item's list_id is the id of a stored list.
C2_NoOrphanItems ==
    \A r \in db.shopping_items : SelectList(db, r.list_id) # {}

\* An item create and a deleteList of its list ran interleaved: the list is
\* deleted, the create was refused by the store, other items are stored.
C2_Witness ==
    \E o1, o2 \in Slots :
       /\ ops[o1].op = "lists.delete" /\ ops[o1].pc = "done" /\ ops[o1].outcome = "ok"
       /\ ops[o2].op = "items.create" /\ ops[o2].pc = "done"
       /\ ops[o2].outcome = "DatabaseError" /\ ops[o2].id = ops[o1].id
       /\ db.shopping_items # {}

\* C10: ShoppingListsService.create with an empty or whitespace-only name is
\* never rejected with a ValidationError: it goes on to insert under the name
\* 'Shopping List', and when the INSERT is done the store holds exactly one
\* more list, the one returned, named 'Shopping List'.
C10_BlankNameCreatesDefault ==
    [][\A o \in Slots :
         /\ \A name \in BlankInputs :
               ListsCreate(o, name) =>
                  /\ ops'[o].pc = "write" /\ ops'[o].outcome # "ValidationError"
                  /\ ops'[o].text = DefaultName
         /\ (/\ ops[o].op = "lists.create" /\ ops[o].pc = "write"
             /\ ops[o].text = DefaultName
             /\ ops'[o].pc = "done" /\ ops'[o].outcome = "ok")
            => \E uuid \in ListIds :
                  /\ newList(ops[o], uuid).name = DefaultName
                  /\ ListRow(newList(ops[o], uuid)) \notin db.shopping_lists
                  /\ db'.shopping_lists =
                        db.shopping_lists \cup {ListRow(newList(ops[o], uuid))}]_vars

\* A create has resolved and a list named 'Shopping List' is stored.
C10_Witness ==
    \E o \in Slots :
       /\ ops[o].op = "lists.create" /\ ops[o].pc = "done" /\ ops[o].outcome = "ok"
       /\ \E r \in db.shopping_lists : r.name = DefaultName

\* C11: ShoppingListsService.update with an empty or whitespace-only name is
\* rejected at once with a ValidationError on the field name that carries the
\* value, whether or not the id is stored; the store is left as it was, and no
\* update call ever awaits its lookup or its UPDATE with an empty name.
C11_BlankNameUpdateRejected ==
    [][\A o \in Slots :
         /\ \A id \in ListIds, name \in BlankInputs :
               ListsUpdate(o, id, name) =>
                  /\ ops'[o].pc = "done" /\ ops'[o].outcome = "ValidationError"
                  /\ ops'[o].field = "name" /\ ops'[o].value = name
                  /\ db' = db
         /\ (ops'[o].op = "lists.update" /\ ops'[o].pc \in {"check", "write"})
            => Len(ops'[o].text) > 0]_vars

\* update("l1", blank) and update("l2", blank) were rejected; l1 is stored, l2
\* is not, and l1 has the name and updated_at it had.
C11_Witness ==
    /\ ops[1].op = "lists.update" /\ ops[1].pc = "done" /\ ops[1].id = "l1"
    /\ ops[1].outcome = "ValidationError" /\ ops[1].value \in BlankInputs
    /\ ops[2].op = "lists.update" /\ ops[2].pc = "done" /\ ops[2].id = "l2"
    /\ ops[2].outcome = "ValidationError" /\ ops[2].value \in BlankInputs
    /\ db.shopping_lists = {SampleListRow}

\* C12: ShoppingItemsService.create with an empty or whitespace-only text is
\* rejected at once with a ValidationError on the field text, whatever the
\* listId; the store is left as it was, and no create call ever awaits its
\* list lookup or its INSERT with an empty text.
C12_BlankTextCreateRejected ==
    [][\A o \in Slots :
         /\ \A listId \in ListIds, text \in BlankInputs :
               ItemsCreate(o, listId, text) =>
                  /\ ops'[o].pc = "done" /\ ops'[o].outcome = "ValidationError"
                  /\ ops'[o].field = "text" /\ ops'[o].value = text
                  /\ db' = db
         /\ (ops'[o].op = "items.create" /\ ops'[o].pc \in {"check", "write"})
            => Len(ops'[o].text) > 0]_vars

\* create with a blank text was rejected for the stored list l1 and for the
\* list l2 that is not stored; the items are the ones stored before.
C12_Witness ==
    /\ ops[1].op = "items.create" /\ ops[1].pc = "done" /\ ops[1].id = "l1"
    /\ ops[1].outcome = "ValidationError" /\ ops[1].field = "text"
    /\ ops[2].op = "items.create" /\ ops[2].pc = "done" /\ ops[2].id = "l2"
    /\ ops[2].outcome = "ValidationError" /\ ops[2].field = "text"
    /\ db.shopping_lists = {SampleListRow}
    /\ db.shopping_items = {SampleItemRow}

ItemLookups ==
    {"items.update", "items.copy", "items.toggleComplete", "items.deleteItem"}

ListLookups == {"lists.update", "lists.delete"}

\* C16: when the lookup of an item update, copy, toggleComplete or deleteItem,
\* or of a list update or deleteList, finds no row of that id, the call is
\* rejected with a NotFoundError (or, when the lookup itself failed in the
\* storage, with a DatabaseError); it never goes on to its write and the store
\* is left as it was.
C16_MissingIdRejected ==
    [][\A o \in Slots :
         (/\ ops[o].pc = "check" /\ ops'[o] # ops[o]
          /\ \/ ops[o].op \in ItemLookups /\ SelectItem(db, ops[o].id) = {}
             \/ ops[o].op \in ListLookups /\ SelectList(db, ops[o].id) = {})
         => /\ ops'[o].pc = "done"
            /\ \/ /\ ops'[o].outcome = "NotFoundError"
                  /\ ops'[o].field = IF ops[o].op \in ItemLookups
                                     THEN "id" ELSE "ShoppingList"
               \/ ops'[o].outcome = "DatabaseError"
            /\ db' = db]_vars

\* A list call and an item call were both rejected with a NotFoundError; the
\* store holds the rows it held.
C16_Witness ==
    \E o1, o2 \in Slots :
       /\ ops[o1].op \in ListLookups /\ ops[o1].pc = "done"
       /\ ops[o1].outcome = "NotFoundError" /\ ops[o1].id = "l2"
       /\ ops[o2].op \in ItemLookups /\ ops[o2].pc = "done"
       /\ ops[o2].outcome = "NotFoundError" /\ ops[o2].id = "i2"
       /\ db.shopping_lists = {SampleListRow}
       /\ db.shopping_items = {SampleItemRow}

\* C14: when the INSERT of copy(id) is done, the store holds exactly one row
\* more; the new row has an id no stored row had (so not the id of the stored
\* source R), and the list_id, text and completed of R as the call read it,
\* which is the stored R unless an interleaved call has written R since; R and
\* every other row are unchanged. No other step of a copy writes.
C14_CopyInsertsOneEqualItem ==
    [][\A o \in Slots :
         /\ (/\ ops[o].op = "items.copy" /\ ops[o].pc = "write"
             /\ ops'[o].pc = "done" /\ ops'[o].outcome = "ok")
            => \E n \in db'.shopping_items :
                  /\ SelectItem(db, n.id) = {}
                  /\ db'.shopping_items = db.shopping_items \cup {n}
                  /\ db'.shopping_lists = db.shopping_lists
                  /\ \A sourceItem \in ops[o].existing :
                        /\ n.list_id = sourceItem.listId
                        /\ n.text = sourceItem.text
                        /\ (n.completed # 0) = sourceItem.completed
                  /\ \A R \in SelectItem(db, ops[o].id) :
                        ItemFromRow(R) \in ops[o].existing =>
                           /\ n.id # R.id
                           /\ n.list_id = R.list_id /\ n.text = R.text
                           /\ n.completed = R.completed
                           /\ R \in db'.shopping_items
         /\ (/\ ops[o].op = "items.copy" /\ ops'[o] # ops[o]
             /\ ~(ops[o].pc = "write" /\ ops'[o].outcome = "ok"))
            => db' = db]_vars

\* copy("i1") has resolved: the store holds the completed item i1 as it was
\* and a second completed item of the same list and text under the id i2.
C14_Witness ==
    \E o \in Slots :
       /\ ops[o].op = "items.copy" /\ ops[o].pc = "done" /\ ops[o].outcome = "ok"
       /\ ops[o].id = "i1"
       /\ db.shopping_items =
             {SampleItemRow,
              [SampleItemRow EXCEPT !.id = "i2", !.created_at = MaxTime,
                                    !.updated_at = MaxTime]}

\* The completed column of the sample item of that id, as the store had it
\* at the start.
Original(id) ==
    {S.completed : S \in {S \in {SampleItemRow, SampleItemRow2} : S.id = id}}

\* The caller's toggleComplete(id) calls that have resolved.
Resolved(frames, id) ==
    {o \in Slots : /\ frames[o].op = "items.toggleComplete" /\ frames[o].pc = "done"
                   /\ frames[o].outcome = "ok" /\ frames[o].id = id}

\* C15: of a caller that awaits each of its toggleComplete calls, each call
\* that resolves stores the opposite of the completed value stored before it
\* and returns the item with that flipped flag, the row being otherwise as it
\* was but for updated_at; when two calls on one item have resolved (an even
\* number of them), the stored flag is the original one, and after an odd
\* number it is the opposite.
C15_ToggleTwiceRestores ==
    [][/\ \A o \in Slots :
            (/\ ops[o].op = "items.toggleComplete" /\ ops[o].pc = "write"
             /\ ops'[o].pc = "done" /\ ops'[o].outcome = "ok")
            => /\ SelectItem(db, ops[o].id) # {}
               /\ \A R \in SelectItem(db, ops[o].id) :
                     /\ toggledItem(ops[o]) =
                           {[ItemFromRow(R) EXCEPT !.completed = (R.completed = 0),
                                                   !.updatedAt = ops[o].at]}
                     /\ SelectItem(db', ops[o].id) =
                           {ItemRow(t) : t \in toggledItem(ops[o])}
                     /\ \A R2 \in SelectItem(db', ops[o].id) :
                           R2.completed = 1 - R.completed
       /\ \A id \in Ids : \A R \in SelectItem(db', id) :
             {R.completed} =
                IF Cardinality(Resolved(ops', id)) % 2 = 0
                THEN Original(id) ELSE {1 - c : c \in Original(id)}]_vars

\* Two toggleComplete("i1") in a row have resolved: i1 is completed, as it
\* was, and its updated_at is the time of the calls.
C15_Witness ==
    /\ Cardinality(Resolved(ops, "i1")) = 2
    /\ [SampleItemRow EXCEPT !.updated_at = MaxTime] \in db.shopping_items

\* r2 is r but for the named columns.
ListRenamed(r, r2) == r2 = [r EXCEPT !.name = r2.name, !.updated_at = r2.updated_at]

ItemRetexted(r, r2) == r2 = [r EXCEPT !.text = r2.text, !.updated_at = r2.updated_at]

ItemToggled(r, r2) ==
    r2 = [r EXCEPT !.completed = r2.completed, !.updated_at = r2.updated_at]

\* C19: no step of a service call changes the id, created_at or list_id of a
\* row that stays stored; the UPDATE of a list update changes only the name
\* and updated_at of the list of that id, the UPDATE of an item update only
\* the text and updated_at of the item of that id, the UPDATE of
\* toggleComplete only its completed and updated_at, and each leaves every
\* other row of both tables as it was; the steps before the write change no row.
C19_UpdatesKeepIdentity ==
    [][/\ \A r \in db.shopping_lists : \A r2 \in SelectList(db', r.id) :
             r2.created_at = r.created_at
       /\ \A r \in db.shopping_items : \A r2 \in SelectItem(db', r.id) :
             r2.created_at = r.created_at /\ r2.list_id = r.list_id
       /\ (\A o \in Slots : ~(ops[o].pc = "write" /\ ops'[o].pc = "done"))
          => db' = db
       /\ \A o \in Slots :
            (ops[o].pc = "write" /\ ops'[o].pc = "done") =>
               /\ ops[o].op = "lists.update" =>
                    /\ db'.shopping_items = db.shopping_items
                    /\ Cardinality(db'.shopping_lists) = Cardinality(db.shopping_lists)
                    /\ \A r \in db.shopping_lists :
                          \E r2 \in db'.shopping_lists :
                             /\ ListRenamed(r, r2)
                             /\ r.id # ops[o].id => r2 = r
                             /\ (r.id = ops[o].id /\ ops'[o].outcome = "ok")
                                => r2.name = ops[o].text /\ r2.updated_at = ops[o].at
               /\ ops[o].op = "items.update" =>
                    /\ db'.shopping_lists = db.shopping_lists
                    /\ Cardinality(db'.shopping_items) = Cardinality(db.shopping_items)
                    /\ \A r \in db.shopping_items :
                          \E r2 \in db'.shopping_items :
                             /\ ItemRetexted(r, r2)
                             /\ r.id # ops[o].id => r2 = r
                             /\ (r.id = ops[o].id /\ ops'[o].outcome = "ok")
                                => r2.text = ops[o].text /\ r2.updated_at = ops[o].at
               /\ ops[o].op = "items.toggleComplete" =>
                    /\ db'.shopping_lists = db.shopping_lists
                    /\ Cardinality(db'.shopping_items) = Cardinality(db.shopping_items)
                    /\ \A r \in db.shopping_items :
                          \E r2 \in db'.shopping_items :
                             /\ ItemToggled(r, r2)
                             /\ r.id # ops[o].id => r2 = r
                             /\ (r.id = ops[o].id /\ ops'[o].outcome = "ok")
                                => r2.updated_at = ops[o].at]_vars

\* An item update and a list update have resolved: i1 and l1 have their new
\* text, name and updated_at and everything else they had; i2 and l2 are as
\* they were.
C19_Witness ==
    \E o1, o2 \in Slots :
       /\ ops[o1].op = "items.update" /\ ops[o1].pc = "done" /\ ops[o1].outcome = "ok"
       /\ ops[o2].op = "lists.update" /\ ops[o2].pc = "done" /\ ops[o2].outcome = "ok"
       /\ db.shopping_items =
             {[SampleItemRow EXCEPT !.text = <<"b">>, !.updated_at = MaxTime],
              SampleItemRow2}
       /\ db.shopping_lists =
             {[SampleListRow EXCEPT !.name = <<"b">>, !.updated_at = MaxTime],
              SampleListRow2}

\* C21: when the write of a list update, an item update, a toggleComplete or
\* a copy resolves, the row the call looked up is still stored as the call
\* read it when the write executes (no statement of another call ran in
\* between), and after the write the store holds the entity the call returns.
C21_CheckAndWriteAtomic ==
    [][\A o \in Slots :
         (/\ ops[o].pc = "write" /\ ops'[o].pc = "done" /\ ops'[o].outcome = "ok"
          /\ ops[o].op \in {"lists.update", "items.update",
                            "items.toggleComplete", "items.copy"})
         => IF ops[o].op = "lists.update"
            THEN /\ {ListRow(e) : e \in ops[o].existing} = SelectList(db, ops[o].id)
                 /\ {ListRow(l) : l \in updatedList(ops[o])} \subseteq db'.shopping_lists
            ELSE /\ {ItemRow(e) : e \in ops[o].existing} = SelectItem(db, ops[o].id)
                 /\ ops[o].op = "items.update" =>
                       {ItemRow(i) : i \in updatedItem(ops[o])}
                          \subseteq db'.shopping_items
                 /\ ops[o].op = "items.toggleComplete" =>
                       {ItemRow(i) : i \in toggledItem(ops[o])}
                          \subseteq db'.shopping_items
                 /\ ops[o].op = "items.copy" =>
                       \E uuid \in Ids :
                          {ItemRow(i) : i \in copiedItem(ops[o], uuid)}
                             \subseteq db'.shopping_items \ db.shopping_items]_vars

----------------------------------------------------------------------------
\* Properties of the settings service

\* C17: when the UPDATE of updateTheme(themeId) is done, the stored
\* custom_colors is NULL if themeId is not 'custom' and is what it was if
\* themeId is 'custom'; and the settings an updateTheme with a preset resolves
\* to, the ones getSettings reads, have customColors = null.
C17_PresetClearsCustomColors ==
    [][\A o \in Slots :
         ops[o].op = "settings.updateTheme" =>
            /\ (ops[o].pc = "write" /\ ops'[o].pc = "check") =>
                  IF ops[o].id # "custom"
                  THEN \A r \in SelectSettings(db') : r.custom_colors = "NULL"
                  ELSE \A r \in SelectSettings(db) : \A r2 \in SelectSettings(db') :
                          r2.custom_colors = r.custom_colors
            /\ (/\ ops[o].pc = "check" /\ ops'[o].pc = "done"
                /\ ops'[o].outcome = "ok" /\ ops[o].id # "custom")
               => \A s \in settings(db) : s.customColors = "NULL"]_vars

\* C18: whenever schema version 3 is recorded, the settings table holds
\* exactly one row and its id is 1.
C18_OneSettingsRow ==
    SelectVersion(db) = CURRENT_SCHEMA_VERSION =>
       /\ "app_settings" \in db.schema
       /\ Cardinality(db.app_settings) = 1
       /\ \A r \in db.app_settings : r.id = 1

\* The store was migrated from version 2, the colours were updated, the app
\* was launched again and its initialization found nothing to migrate, and
\* clearAllData has resolved: the settings row is there, with the colours.
C18_Witness ==
    /\ \E c \in Calls : ini[c].pc = "done" /\ ini[c].applied = <<>>
    /\ \E o \in Slots : /\ ops[o].op = "clearAllData" /\ ops[o].pc = "done"
                        /\ ops[o].outcome = "ok"
    /\ \E r \in db.app_settings :
          /\ r.theme_id = "custom" /\ r.custom_colors # "NULL"
          /\ r.created_at = MaxTime
    /\ Cardinality(db.app_settings) = 1

\* C20: when executeTransaction rejects, it rejects with a DatabaseError, the
\* store is what it was before the call and the connection has no open
\* transaction; and what the calls that resolved wrote is committed: closing
\* the connection loses nothing.
C20_FailedTransactionRollsBack ==
    [][/\ \A o \in Slots :
            (/\ ops[o].op = "executeTransaction" /\ ops[o].pc = "write"
             /\ ops'[o].pc = "done" /\ ops'[o].outcome # "ok")
            => /\ ops'[o].outcome = "DatabaseError"
               /\ db' = db
               /\ ~InTransaction(db')
       /\ (dbInstance # 0 /\ dbInstance' = 0) => db' = db]_vars

----------------------------------------------------------------------------
\* Properties of the hooks

\* The mutations that change the cache before their service call.
Optimistic == {"updateItem", "toggleComplete", "deleteItem", "deleteList"}

C4_OptimisticApplyPrecedesCall ==
    [][\A o \in Slots :
         (hk[o].kind = "none" /\ hk'[o].kind # "none") =>
             LET k == hk'[o]
             IN  CASE k.kind \in {"createItem", "copyItem"} ->
                        \E i \in Range(items') : i \notin Range(items)
                   [] k.kind = "createList" ->
                        \E l \in Range(lists') : l \notin Range(lists)
                   [] k.kind = "updateItem" ->
                        \A j \in DOMAIN items' :
                           items'[j].id = k.id => Trim(items'[j].text) = ops'[o].text
                   [] k.kind = "toggleComplete" ->
                        /\ DOMAIN items' = DOMAIN items
                        /\ \A j \in DOMAIN items :
                              items[j].id = k.id =>
                                 items'[j].completed = ~items[j].completed
                   [] k.kind = "deleteItem" ->
                        \A j \in DOMAIN items' : items'[j].id # k.id
                   [] k.kind = "deleteList" ->
                        \A j \in DOMAIN lists' : lists'[j].id # k.id]_vars

----------------------------------------------------------------------------
\* Properties of the cache with its fetches

\* The optimistic mutations of useShoppingItems, which snapshot the cache.
Snapshotting == {"updateItem", "toggleComplete", "deleteItem"}

\* A fetch of the hook resolved in a frame below o: since a call takes the
\* lowest free frame, that fetch resolved while the call of frame o was
\* pending.
RefreshedSince(o) ==
    \E p \in Slots :
       /\ p < o /\ hk[p].kind = "none"
       /\ ops[p].op = "items.getByListId" /\ ops[p].pc = "done"
       /\ ops[p].outcome = "ok" /\ ops[p].id = currentListId

\* C22: when refresh() resolves, the cache becomes the list the service query
\* returned; and a mutation that was pending while the refresh resolved does
\* not write its snapshot back afterwards: when it is rejected, the cache the
\* refresh left stays as it is.
C22_RefreshDiscardsPending ==
    [][\A o \in Slots :
         /\ (hk[o].kind = "fetchItems" /\ hk'[o].kind = "none"
               /\ ops'[o].outcome = "ok")
            => items' \in SelectByListId(db, hk[o].id)
         /\ (hk[o].kind \in Snapshotting /\ hk'[o].kind = "none"
               /\ ops'[o].outcome # "ok" /\ RefreshedSince(o)
               /\ items \in SelectByListId(db, currentListId))
            => items' = items]_vars

\* The fetches of the two hooks.
Fetches == {"fetchItems", "fetchLists"}

\* What the query of the fetch in frame o returns on the store d.
Fetched(o, d) ==
    IF hk[o].kind = "fetchItems" THEN SelectByListId(d, hk[o].id) ELSE SelectAll(d)

\* The cache of the hook h.
CacheOf(h, itemsCache, listsCache) ==
    IF h = "useShoppingItems" THEN itemsCache ELSE listsCache

\* C23: a fetch enters Loading (isLoading true, error null); when its storage
\* call settles it leaves Loading, and it ends Ready (the cache is the fetched
\* list, error null) or Failed (error set, the cache as it was); and a fetch
\* in flight is eventually settled.
C23_FetchLifecycle ==
    /\ [][\A o \in Slots :
            LET h == HookOf(hk[o].kind)
                g == HookOf(hk'[o].kind)
            IN  /\ (hk[o].kind = "none" /\ hk'[o].kind \in Fetches)
                      => isLoading'[g] /\ error'[g] = "null"
                /\ (hk[o].kind \in Fetches /\ hk'[o].kind = "none")
                      => /\ ~isLoading'[h]
                         /\ IF ops'[o].outcome = "ok"
                            THEN /\ CacheOf(h, items', lists') \in Fetched(o, db)
                                 /\ error'[h] = "null"
                            ELSE /\ error'[h] # "null"
                                 /\ CacheOf(h, items', lists')
                                       = CacheOf(h, items, lists)]_vars
    /\ \A o \in Slots : (hk[o].kind \in Fetches) ~> (hk[o].kind \notin Fetches)

\* C28: while a fetch of a hook is in flight, the hook's isLoading is true.
C28_LoadingWhileFetching ==
    \A o \in Slots : hk[o].kind \in Fetches => isLoading[HookOf(hk[o].kind)]

\* C29: every item in the cache of useShoppingItems(listId) belongs to the
\* list the hook was last rendered with.
C29_CacheOfCurrentList ==
    \A k \in DOMAIN items : items[k].listId = currentListId

\* C27: when no fetch and no mutation of useShoppingItems is in flight, the
\* cached items are exactly the store's rows of the hook's list, each once,
\* with the same field values.
C27_CacheMatchesStore ==
    (\A o \in Slots : hk[o].kind = "none") =>
        /\ Range(items) = {ItemFromRow(r) : r \in ItemsOf(db, currentListId)}
        /\ Len(items) = Cardinality(ItemsOf(db, currentListId))

\* C26: when copyItem or createItem succeeds on a cache that is the list
\* getByListId returns, the cache with the new item is again the list
\* getByListId returns (created_at ascending).
C26_CacheInQueryOrder ==
    [][\A o \in Slots :
         (/\ hk[o].kind \in {"copyItem", "createItem"} /\ hk'[o].kind = "none"
          /\ ops'[o].outcome = "ok"
          /\ items \in SelectByListId(db, currentListId))
         => items' \in SelectByListId(db', currentListId)]_vars

----------------------------------------------------------------------------
\* Properties of the schema

\* C25: whatever path a write takes, the store holds no list whose name has
\* fewer than 1 or more than 100 characters and no item whose text has fewer
\* than 1 or more than 500.
C25_StoreEnforcesLengths ==
    /\ \A r \in db.shopping_lists : Len(r.name) \in 1..MAX_LIST_NAME
    /\ \A r \in db.shopping_items : Len(r.text) \in 1..MAX_ITEM_TEXT

----------------------------------------------------------------------------
\* Properties of the list screen

\* The mutations of useShoppingItems.
Mutations == {"createItem", "updateItem", "copyItem", "toggleComplete", "deleteItem"}

\* C24: at most one mutation of the cached list is outstanding at any time:
\* while one issued from the screen is in flight, the screen starts no other.
C24_OneMutationOutstanding ==
    Cardinality({o \in Slots : hk[o].kind \in Mutations}) <= 1

----------------------------------------------------------------------------
\* Properties of the theme provider

\* C30: when setTheme, setCustomColors or resetTheme has succeeded, the
\* provider's themeId and customColors are what getSettings() returns from
\* the store, which is what the provider loads after a restart.
C30_ThemeStateMatchesStore ==
    [][\A o \in Slots :
         (/\ hk[o].kind \in {"setTheme", "setCustomColors", "resetTheme"}
          /\ hk'[o].kind = "none" /\ ops'[o].outcome = "ok")
         => theme' = ThemeAfter(Waiting("loadSettings", "", <<>>), TRUE, db')]_vars

====
